---- MODULE Spec2Model ----
(***************************************************************************)
(* UN budget explorer: the budget tree built by Home (aggregation), the    *)
(* rectangular partitioner of BudgetTreemap (squarify / slice) and the     *)
(* expandable row list of BudgetLollipop.                                  *)
(*                                                                         *)
(* JavaScript numbers are modelled by exact rationals extended with NaN    *)
(* and the infinities: [n |-> numerator, d |-> denominator], d > 0 for a   *)
(* finite number in lowest terms, d = 0 for NaN (n = 0), +Infinity (n = 1) *)
(* and -Infinity (n = -1).  Rounding of IEEE doubles is not modelled.      *)
(***************************************************************************)
EXTENDS Integers, Sequences, FiniteSets, TLC

VARIABLES
    sqItems,     \* squarify: the items argument, a sequence of values
    sqBox,       \* squarify: the x, y, width, height arguments
    sqCall,      \* squarify: which function produced sqRects ("none" before the call)
    sqRects,     \* squarify: the returned rectangles
    response,    \* Home: the rows budget.json holds
    budgetData,  \* Home: the budgetData state
    loading,     \* Home: the loading state
    parts,       \* Home: the memoized tree (parts)
    treemap,     \* BudgetTreemap: the squarify calls of the last render
    expanded,    \* BudgetLollipop: the expanded state (a set of row ids)
    rows,        \* BudgetLollipop: the rows of the last render
    selectedEntity, \* Home: the selectedEntity state, <<>> for null or <<entity>>
    lastClick,   \* the lollipop row clicked last, <<>> before any click or <<row>>
    responseIsArray, \* Home: whether the JSON value of budget.json is an array
    crashed,     \* Home: a render threw (an uncaught TypeError)
    maxValue,    \* generateTicks: the maxValue argument
    ticks,       \* generateTicks: the returned ticks, <<>> before the call
    details,     \* EntityModal: the records details.json holds
    inflight,    \* EntityModal: the fetches issued and not yet settled
    narratives,  \* EntityModal: the narratives state
    resourceTable, \* EntityModal: the resourceTable state, <<>> for null
    loadingNarratives, \* EntityModal: the loadingNarratives state
    detailsError, \* EntityModal: the detailsError state, <<>> for null or <<message>>
    isMobile,    \* BudgetTreemap: the isMobile state
    hoveredEntity, \* BudgetTreemap: the hoveredEntity state, <<>> for null or <<id>>
    tooltip,     \* BudgetTreemap: the tooltip state, <<>> for null or <<[x, y, entity]>>
    treemapEvent \* the event BudgetTreemap handled last, <<>> before any event

sqVars == <<sqItems, sqBox, sqCall, sqRects>>

homeVars == <<response, budgetData, loading, parts, treemap>>

lollipopVars == <<expanded, rows, selectedEntity, lastClick>>

pageVars == <<responseIsArray, crashed>>

tickVars == <<maxValue, ticks>>

modalVars == <<details, inflight, narratives, resourceTable, loadingNarratives, detailsError>>

hoverVars == <<isMobile, hoveredEntity, tooltip, treemapEvent>>

vars == <<sqItems, sqBox, sqCall, sqRects, response, budgetData, loading, parts, treemap,
          expanded, rows, selectedEntity, lastClick, responseIsArray, crashed,
          maxValue, ticks, details, inflight, narratives, resourceTable,
          loadingNarratives, detailsError, isMobile, hoveredEntity, tooltip,
          treemapEvent>>

----------------------------------------------------------------------------
(* Bounds of the model *)

\* longest item list handed to squarify
MaxItems == 4
\* largest item value handed to squarify
MaxValue == 3
\* largest side of a small bounding box
MaxSide == 4

----------------------------------------------------------------------------
(* JavaScript number arithmetic *)

Abs(i) == IF i < 0 THEN -i ELSE i

Sign(i) == IF i < 0 THEN -1 ELSE IF i > 0 THEN 1 ELSE 0

RECURSIVE GCD(_, _)
GCD(a, b) == IF b = 0 THEN a ELSE GCD(b, a % b)

Norm(n, d) ==
    IF d = 0 THEN [n |-> Sign(n), d |-> 0]
    ELSE LET s == IF d < 0 THEN -1 ELSE 1
             g == GCD(Abs(n), Abs(d))
         IN  [n |-> (s * n) \div g, d |-> (s * d) \div g]

Num(i) == [n |-> i, d |-> 1]

NaN == [n |-> 0, d |-> 0]

IsNaN(a) == a.d = 0 /\ a.n = 0

IsFinite(a) == a.d > 0

Neg(a) == [n |-> -a.n, d |-> a.d]

Add(a, b) ==
    IF a.d = 0 /\ b.d = 0
    THEN (IF a = b THEN a ELSE NaN)
    ELSE Norm(a.n * b.d + b.n * a.d, a.d * b.d)

Sub(a, b) == Add(a, Neg(b))

Mul(a, b) == Norm(a.n * b.n, a.d * b.d)

Recip(a) ==
    IF a.n = 0 THEN (IF a.d = 0 THEN NaN ELSE [n |-> 1, d |-> 0])
    ELSE Norm(a.d, a.n)

Div(a, b) == Mul(a, Recip(b))

Lt(a, b) ==
    /\ ~IsNaN(a)
    /\ ~IsNaN(b)
    /\ IF a.d = 0 /\ b.d = 0 THEN a.n < b.n ELSE a.n * b.d < b.n * a.d

Gt(a, b) == Lt(b, a)

Ge(a, b) == ~IsNaN(a) /\ ~IsNaN(b) /\ ~Lt(a, b)

Le(a, b) == Ge(b, a)

\* Math.max / Math.min of two numbers: NaN if either is NaN
Max2(a, b) == IF IsNaN(a) \/ IsNaN(b) THEN NaN ELSE IF Lt(a, b) THEN b ELSE a

Min2(a, b) == IF IsNaN(a) \/ IsNaN(b) THEN NaN ELSE IF Lt(b, a) THEN b ELSE a

\* Math.ceil(n / k) for integers n >= 0, k > 0
CeilDiv(n, k) == (n + k - 1) \div k

MinInt(a, b) == IF a < b THEN a ELSE b

MaxInt(a, b) == IF a > b THEN a ELSE b

----------------------------------------------------------------------------
(* squarify / slice of BudgetTreemap.tsx (binary split along the longer axis) *)

\* items.reduce((sum, item) => sum + item.normalizedValue, 0)
RECURSIVE SumNormalized(_)
SumNormalized(items) ==
    IF items = <<>> THEN Num(0)
    ELSE Add(SumNormalized(SubSeq(items, 1, Len(items) - 1)),
             items[Len(items)].normalizedValue)

\* items.reduce((sum, item) => sum + item.value, 0)
RECURSIVE SumValue(_)
SumValue(items) ==
    IF items = <<>> THEN Num(0)
    ELSE Add(SumValue(SubSeq(items, 1, Len(items) - 1)), items[Len(items)].value)

\* the split without the loop: always after the first item
SplitIndexAfterFirst(items, total) == 1

\* the loop that finds the split: the first i (0-based) whose running sum is
\* >= total / 2 gives i + 1; 0 when no prefix qualifies; then the clamp
SplitIndex(items, total) ==
    LET half == Div(total, Num(2))
        hits == {i \in 1..Len(items) : Ge(SumNormalized(SubSeq(items, 1, i)), half)}
        raw  == IF hits = {} THEN 0 ELSE CHOOSE i \in hits : \A j \in hits : i <= j
    IN  MaxInt(1, MinInt(raw, Len(items) - 1))

Rect(x, y, width, height, data) ==
    [x |-> x, y |-> y, width |-> width, height |-> height, data |-> data]

RECURSIVE slice(_, _, _, _, _)
slice(items, x, y, width, height) ==
    IF Len(items) = 0 THEN <<>>
    ELSE IF Len(items) = 1 THEN <<Rect(x, y, width, height, items[1].data)>>
    ELSE
      LET total      == SumNormalized(items)
          splitIndex == SplitIndex(items, total)
          leftItems  == SubSeq(items, 1, splitIndex)
          rightItems == SubSeq(items, splitIndex + 1, Len(items))
          leftSum    == SumNormalized(leftItems)
      IN  IF Ge(width, height)
          THEN LET leftWidth == Mul(width, Div(leftSum, total))
               IN  slice(leftItems, x, y, leftWidth, height)
                     \o slice(rightItems, Add(x, leftWidth), y,
                              Sub(width, leftWidth), height)
          ELSE LET leftHeight == Mul(height, Div(leftSum, total))
               IN  slice(leftItems, x, y, width, leftHeight)
                     \o slice(rightItems, x, Add(y, leftHeight),
                              width, Sub(height, leftHeight))

\* items.map(item => ({...item, normalizedValue: item.value / total * width * height}))
Normalize(items, total, width, height) ==
    [i \in 1..Len(items) |->
        [value |-> items[i].value, data |-> items[i].data,
         normalizedValue |-> Mul(Mul(Div(items[i].value, total), width), height)]]

squarify(items, x, y, width, height) ==
    LET total == SumValue(items)
    IN  IF total = Num(0) \/ Len(items) = 0 THEN <<>>
        ELSE slice(Normalize(items, total, width, height), x, y, width, height)

----------------------------------------------------------------------------
(* squarify / slice with forceMobileLayout (the responsive BudgetTreemap) *)

\* Math.max(...items.map(i => i.normalizedValue)), -Infinity for no items
RECURSIVE MaxNormalized(_)
MaxNormalized(items) ==
    IF items = <<>> THEN [n |-> -1, d |-> 0]
    ELSE Max2(MaxNormalized(Tail(items)), Head(items).normalizedValue)

\* Math.min(...items.map(i => i.normalizedValue)), +Infinity for no items
RECURSIVE MinNormalized(_)
MinNormalized(items) ==
    IF items = <<>> THEN [n |-> 1, d |-> 0]
    ELSE Min2(MinNormalized(Tail(items)), Head(items).normalizedValue)

\* a row size that takes every item: one row
BestRowSizeAll(items) == Len(items)

\* the row size chosen from the uniformity of the items
BestRowSize(items) ==
    LET maxItem    == MaxNormalized(items)
        minItem    == MinNormalized(items)
        uniformity == Div(minItem, maxItem)
    IN  IF Gt(uniformity, Norm(5, 10)) /\ Len(items) >= 4 THEN 3
        ELSE IF Gt(uniformity, Norm(7, 10)) /\ Len(items) >= 6 THEN 4
        ELSE 2

\* the "Create rows" loop, from index i (1-based) on
RECURSIVE PackRows(_, _, _, _, _, _, _)
PackRows(items, i, currentRow, currentRowSum, packedRows, bestRowSize, targetRowSum) ==
    IF i > Len(items) THEN packedRows
    ELSE
      LET row2 == Append(currentRow, items[i])
          sum2 == Add(currentRowSum, items[i].normalizedValue)
          shouldEndRow ==
              \/ Len(row2) >= bestRowSize
              \/ i = Len(items)
              \/ (Ge(sum2, Mul(targetRowSum, Norm(8, 10))) /\ Len(row2) >= 2)
      IN  IF shouldEndRow
          THEN PackRows(items, i + 1, <<>>, Num(0), Append(packedRows, row2),
                        bestRowSize, targetRowSum)
          ELSE PackRows(items, i + 1, row2, sum2, packedRows, bestRowSize, targetRowSum)

MakeRows(items, total) ==
    LET bestRowSize  == BestRowSize(items)
        targetRowSum == Div(total, Num(CeilDiv(Len(items), bestRowSize)))
    IN  PackRows(items, 1, <<>>, Num(0), <<>>, bestRowSize, targetRowSum)

\* const itemWidth = width * (item.normalizedValue / rowSum), with a slip:
\* the raw value instead of the normalized one
RowItemWidthRawValue(item, rowSum, width) == Mul(width, Div(item.value, rowSum))

\* const itemWidth = width * (item.normalizedValue / rowSum)
RowItemWidth(item, rowSum, width) == Mul(width, Div(item.normalizedValue, rowSum))

\* row.forEach without currentX += itemWidth: every item starts at currentX
RECURSIVE LayoutRowWithoutAdvance(_, _, _, _, _, _)
LayoutRowWithoutAdvance(row, currentX, currentY, rowSum, rowHeight, width) ==
    IF row = <<>> THEN <<>>
    ELSE LET itemWidth == RowItemWidth(Head(row), rowSum, width)
         IN  <<Rect(currentX, currentY, itemWidth, rowHeight, Head(row).data)>>
               \o LayoutRowWithoutAdvance(Tail(row), currentX, currentY,
                                          rowSum, rowHeight, width)

\* row.forEach: the items of one row, left to right from currentX = x
RECURSIVE LayoutRow(_, _, _, _, _, _)
LayoutRow(row, currentX, currentY, rowSum, rowHeight, width) ==
    IF row = <<>> THEN <<>>
    ELSE LET itemWidth == RowItemWidth(Head(row), rowSum, width)
         IN  <<Rect(currentX, currentY, itemWidth, rowHeight, Head(row).data)>>
               \o LayoutRow(Tail(row), Add(currentX, itemWidth), currentY,
                            rowSum, rowHeight, width)

\* rows.forEach: the rows, top to bottom from currentY = y
RECURSIVE LayoutRows(_, _, _, _, _, _)
LayoutRows(packedRows, x, currentY, width, height, total) ==
    IF packedRows = <<>> THEN <<>>
    ELSE LET row       == Head(packedRows)
             rowSum    == SumNormalized(row)
             rowHeight == Mul(height, Div(rowSum, total))
         IN  LayoutRow(row, x, currentY, rowSum, rowHeight, width)
               \o LayoutRows(Tail(packedRows), x, Add(currentY, rowHeight),
                             width, height, total)

RECURSIVE sliceMobile(_, _, _, _, _, _)
sliceMobile(items, x, y, width, height, forceMobileLayout) ==
    IF Len(items) = 0 THEN <<>>
    ELSE IF Len(items) = 1 THEN <<Rect(x, y, width, height, items[1].data)>>
    ELSE
      LET total      == SumNormalized(items)
          packedRows       == MakeRows(items, total)
          splitIndex == SplitIndex(items, total)
          leftItems  == SubSeq(items, 1, splitIndex)
          rightItems == SubSeq(items, splitIndex + 1, Len(items))
          leftSum    == SumNormalized(leftItems)
          leftWidth  == Mul(width, Div(leftSum, total))
          leftHeight == Mul(height, Div(leftSum, total))
          horizontalSlices ==
              sliceMobile(leftItems, x, y, width, leftHeight, forceMobileLayout)
                \o sliceMobile(rightItems, x, Add(y, leftHeight), width,
                               Sub(height, leftHeight), forceMobileLayout)
          aspectRatio == Div(width, height)
          shouldSliceHorizontally == Gt(aspectRatio, Norm(7, 10))
      IN  IF forceMobileLayout /\ Len(items) >= 3 /\ Len(packedRows) > 1
          THEN LayoutRows(packedRows, x, y, width, height, total)
          ELSE IF forceMobileLayout THEN horizontalSlices
          ELSE IF shouldSliceHorizontally
          THEN sliceMobile(leftItems, x, y, leftWidth, height, forceMobileLayout)
                 \o sliceMobile(rightItems, Add(x, leftWidth), y,
                                Sub(width, leftWidth), height, forceMobileLayout)
          ELSE horizontalSlices

squarifyMobile(items, x, y, width, height, forceMobileLayout) ==
    LET total == SumValue(items)
    IN  IF total = Num(0) \/ Len(items) = 0 THEN <<>>
        ELSE sliceMobile(Normalize(items, total, width, height),
                         x, y, width, height, forceMobileLayout)

----------------------------------------------------------------------------
(* Specification of the partitioner: the arguments are drawn in the initial *)
(* state and one call is made                                               *)

\* BudgetTreemap before any event: the initial values of its useState calls
HoverIdle ==
    /\ isMobile = FALSE
    /\ hoveredEntity = <<>>
    /\ tooltip = <<>>
    /\ treemapEvent = <<>>

\* generateTicks was not called
TicksIdle ==
    /\ maxValue = Num(0)
    /\ ticks = <<>>

\* EntityModal is not mounted: the initial values of its useState calls
ModalIdle ==
    /\ details = <<>>
    /\ inflight = <<>>
    /\ narratives = <<>>
    /\ resourceTable = <<>>
    /\ loadingNarratives = FALSE
    /\ detailsError = <<>>

\* every list of at most MaxItems values in 0..MaxValue
ItemLists == UNION {[1..n -> 0..MaxValue] : n \in 0..MaxItems}

\* the box every caller passes (0, 0, 100, 100) and small boxes of every shape
Boxes ==
    {[x |-> 0, y |-> 0, width |-> 100, height |-> 100]}
      \cup {[x |-> o[1], y |-> o[2], width |-> w, height |-> h] :
              o \in {<<0, 0>>, <<1, 2>>}, w \in 1..MaxSide, h \in 1..MaxSide}

\* the items argument: value and payload (the payload is the item's index)
ItemsOf(values) == [i \in 1..Len(values) |-> [value |-> Num(values[i]), data |-> i]]

SqInit ==
    /\ sqItems \in ItemLists
    /\ sqBox \in Boxes
    /\ sqCall = "none"
    /\ sqRects = <<>>
    /\ response = <<>>
    /\ budgetData = <<>>
    /\ loading = TRUE
    /\ parts = <<>>
    /\ treemap = <<>>
    /\ expanded = {}
    /\ rows = <<>>
    /\ selectedEntity = <<>>
    /\ lastClick = <<>>
    /\ responseIsArray = TRUE
    /\ crashed = FALSE
    /\ TicksIdle
    /\ HoverIdle
    /\ ModalIdle

\* squarify(items, x, y, width, height) of BudgetTreemap.tsx
CallSquarify ==
    /\ sqCall = "none"
    /\ sqCall' = "desktop"
    /\ sqRects' = squarify(ItemsOf(sqItems), Num(sqBox.x), Num(sqBox.y),
                           Num(sqBox.width), Num(sqBox.height))
    /\ UNCHANGED <<sqItems, sqBox>>
    /\ UNCHANGED homeVars
    /\ UNCHANGED lollipopVars
    /\ UNCHANGED pageVars
    /\ UNCHANGED tickVars
    /\ UNCHANGED hoverVars
    /\ UNCHANGED modalVars

\* squarify(items, x, y, width, height, false): the aspect-ratio split
CallSquarifyAspect ==
    /\ sqCall = "none"
    /\ sqCall' = "aspect"
    /\ sqRects' = squarifyMobile(ItemsOf(sqItems), Num(sqBox.x), Num(sqBox.y),
                                 Num(sqBox.width), Num(sqBox.height), FALSE)
    /\ UNCHANGED <<sqItems, sqBox>>
    /\ UNCHANGED homeVars
    /\ UNCHANGED lollipopVars
    /\ UNCHANGED pageVars
    /\ UNCHANGED tickVars
    /\ UNCHANGED hoverVars
    /\ UNCHANGED modalVars

\* squarify(items, x, y, width, height, true): row packing
CallSquarifyMobile ==
    /\ sqCall = "none"
    /\ sqCall' = "mobile"
    /\ sqRects' = squarifyMobile(ItemsOf(sqItems), Num(sqBox.x), Num(sqBox.y),
                                 Num(sqBox.width), Num(sqBox.height), TRUE)
    /\ UNCHANGED <<sqItems, sqBox>>
    /\ UNCHANGED homeVars
    /\ UNCHANGED lollipopVars
    /\ UNCHANGED pageVars
    /\ UNCHANGED tickVars
    /\ UNCHANGED hoverVars
    /\ UNCHANGED modalVars

SqNext == CallSquarify \/ CallSquarifyAspect \/ CallSquarifyMobile

SpecSquarify == SqInit /\ [][SqNext]_vars

----------------------------------------------------------------------------
(* Properties of the partitioner *)

AllPositive(values) == \A i \in 1..Len(values) : values[i] > 0

RECURSIVE SumInts(_)
SumInts(values) == IF values = <<>> THEN 0 ELSE Head(values) + SumInts(Tail(values))

RECURSIVE SumAreas(_)
SumAreas(rects) ==
    IF rects = <<>> THEN Num(0)
    ELSE Add(Mul(Head(rects).width, Head(rects).height), SumAreas(Tail(rects)))

BoxArea == Num(sqBox.width * sqBox.height)

\* C1: for a non-empty list of positive values the areas of the returned
\* rectangles sum to width x height of the box, in every mode
C1_AreaPreserved ==
    (sqCall # "none" /\ Len(sqItems) > 0 /\ AllPositive(sqItems))
        => SumAreas(sqRects) = BoxArea

\* row packing has acted: three or more positive items, laid out in rows
\* (the first two rectangles share a row, the last one is in a lower row)
C1_Witness ==
    /\ sqCall = "mobile"
    /\ Len(sqItems) >= 3
    /\ AllPositive(sqItems)
    /\ Len(sqRects) = Len(sqItems)
    /\ sqRects[1].y = sqRects[2].y
    /\ Lt(sqRects[1].y, sqRects[Len(sqRects)].y)
    /\ SumAreas(sqRects) = BoxArea

InBox(r) ==
    /\ Le(Num(sqBox.x), r.x)
    /\ Le(Add(r.x, r.width), Num(sqBox.x + sqBox.width))
    /\ Le(Num(sqBox.y), r.y)
    /\ Le(Add(r.y, r.height), Num(sqBox.y + sqBox.height))

PositiveSize(r) == Gt(r.width, Num(0)) /\ Gt(r.height, Num(0))

\* C2: for values >= 0 with a positive total every returned rectangle has
\* width > 0 and height > 0 and lies within the box
C2_PositiveInBox ==
    (sqCall # "none" /\ SumInts(sqItems) > 0)
        => \A k \in 1..Len(sqRects) : PositiveSize(sqRects[k]) /\ InBox(sqRects[k])

----------------------------------------------------------------------------
(* Home: the budget tree (the parts useMemo of the page component) *)

\* const partOrder = ['Part I', ..., 'Part XIV']
partOrder ==
    <<"Part I", "Part II", "Part III", "Part IV", "Part V", "Part VI", "Part VII",
      "Part VIII", "Part IX", "Part X", "Part XI", "Part XII", "Part XIII", "Part XIV">>

\* array.filter(b => b.row_type === t)
RECURSIVE FilterType(_, _)
FilterType(data, t) ==
    IF data = <<>> THEN <<>>
    ELSE IF Head(data).row_type = t
         THEN <<Head(data)>> \o FilterType(Tail(data), t)
         ELSE FilterType(Tail(data), t)

\* `${partKey}-${sectionKey}`
SectionId(partKey, sectionKey) == partKey \o "-" \o sectionKey

\* the index of sectionKey in a part's sections (insertion order), 0 if absent
SectionIndex(sections, sectionKey) ==
    IF \E k \in 1..Len(sections) : sections[k].section = sectionKey
    THEN CHOOSE k \in 1..Len(sections) : sections[k].section = sectionKey
    ELSE 0

\* partMap.set / part.sections.set when absent, then entities.push(entity)
PushEntity(partMap, partKey, sectionKey, entity) ==
    LET sections0 == IF partKey \in DOMAIN partMap THEN partMap[partKey] ELSE <<>>
        sections1 == IF SectionIndex(sections0, sectionKey) = 0
                     THEN Append(sections0, [section |-> sectionKey, entities |-> <<>>])
                     ELSE sections0
        k         == SectionIndex(sections1, sectionKey)
        sections2 == [sections1 EXCEPT ![k].entities = Append(@, entity)]
    IN  [p \in (DOMAIN partMap) \cup {partKey} |->
            IF p = partKey THEN sections2 ELSE partMap[p]]

\* if (budget < 0) return; (zero is let through)
DroppedNegativeOnly(b) == b.revised2026 < 0

\* const budget = b['2026 revised estimate']; if (budget <= 0) return;
\* the comparison converts its operand to a number: null gives 0 <= 0, an
\* absent field (undefined) gives NaN <= 0, which is false
Dropped(b) ==
    IF b.revisedType = "undefined" THEN FALSE
    ELSE IF b.revisedType = "null" THEN TRUE
    ELSE b.revised2026 <= 0

EntityOf(b) ==
    [id |-> SectionId(b.Part, b.Section) \o "-" \o b.EntityName,
     name |-> b.EntityName, part |-> b.Part, section |-> b.Section,
     budget |-> b.revised2026, budgetItem |-> b]

SectionAsEntity(b) ==
    [id |-> SectionId(b.Part, b.Section) \o "-section",
     name |-> "Section name", part |-> b.Part, section |-> b.Section,
     budget |-> b.revised2026, budgetItem |-> b]

\* entityRows.forEach: state is the partMap and the sectionsWithEntities set
RECURSIVE AddEntityRows(_, _)
AddEntityRows(entityRows, st) ==
    IF entityRows = <<>> THEN st
    ELSE LET b == Head(entityRows)
         IN  IF Dropped(b) THEN AddEntityRows(Tail(entityRows), st)
             ELSE AddEntityRows(Tail(entityRows),
                    [partMap |-> PushEntity(st.partMap, b.Part, b.Section, EntityOf(b)),
                     sectionsWithEntities |->
                        st.sectionsWithEntities \cup {SectionId(b.Part, b.Section)}])

\* the two early returns of sectionRows.forEach, without the second one
SkipSectionRowDroppedOnly(b, sectionsWithEntities) == Dropped(b)

\* the two early returns of sectionRows.forEach:
\* if (budget <= 0) return; if (sectionsWithEntities.has(sectionId)) return;
SkipSectionRow(b, sectionsWithEntities) ==
    \/ Dropped(b)
    \/ SectionId(b.Part, b.Section) \in sectionsWithEntities

\* sectionRows.forEach
RECURSIVE AddSectionRows(_, _)
AddSectionRows(sectionRows, st) ==
    IF sectionRows = <<>> THEN st
    ELSE LET b == Head(sectionRows)
         IN  IF SkipSectionRow(b, st.sectionsWithEntities)
             THEN AddSectionRows(Tail(sectionRows), st)
             ELSE AddSectionRows(Tail(sectionRows),
                    [st EXCEPT !.partMap =
                        PushEntity(st.partMap, b.Part, b.Section, SectionAsEntity(b))])

\* sectionData.entities.reduce((sum, e) => sum + e.budget, 0)
RECURSIVE SumBudget(_)
SumBudget(entities) ==
    IF entities = <<>> THEN 0 ELSE Head(entities).budget + SumBudget(Tail(entities))

RECURSIVE SumTotalBudget(_)
SumTotalBudget(nodes) ==
    IF nodes = <<>> THEN 0 ELSE Head(nodes).totalBudget + SumTotalBudget(Tail(nodes))

\* the TreemapSection list with the total taken from the first child only
SectionsOfFirstChild(sectionMap) ==
    [k \in 1..Len(sectionMap) |->
        [section |-> sectionMap[k].section,
         entities |-> sectionMap[k].entities,
         totalBudget |-> sectionMap[k].entities[1].budget]]

\* partData.sections.forEach: the TreemapSection list, in insertion order
SectionsOf(sectionMap) ==
    [k \in 1..Len(sectionMap) |->
        [section |-> sectionMap[k].section,
         entities |-> sectionMap[k].entities,
         totalBudget |-> SumBudget(sectionMap[k].entities)]]

\* partTotals.get(partKey): the last part_total row of the Part, <<>> if none
partTotals(data, partKey) ==
    LET hits == {i \in 1..Len(data) :
                    data[i].row_type = "part_total" /\ data[i].Part = partKey}
    IN  IF hits = {} THEN <<>>
        ELSE <<data[CHOOSE i \in hits : \A j \in hits : j <= i]>>

\* partTotalRow?.['2025 approved'] ?? 0
Approved2025Of(partTotalRow) ==
    IF partTotalRow = <<>> THEN 0 ELSE partTotalRow[1].approved2025

\* partTotalRow?.['2026 revised estimate'] ?? 0
Revised2026Of(partTotalRow) ==
    IF partTotalRow = <<>> THEN 0
    ELSE IF partTotalRow[1].revisedType = "number" THEN partTotalRow[1].revised2026
    ELSE 0

\* ((revised2026 - approved2025) / approved2025) * 100, without the guard
VarianceUnguarded(revised2026, approved2025) ==
    Mul(Div(Sub(Num(revised2026), Num(approved2025)), Num(approved2025)), Num(100))

\* approved2025 > 0 ? ((revised2026 - approved2025) / approved2025) * 100 : 0
VarianceVs2025(revised2026, approved2025) ==
    IF approved2025 > 0
    THEN Mul(Div(Sub(Num(revised2026), Num(approved2025)), Num(approved2025)), Num(100))
    ELSE Num(0)

\* partTotal is NaN when a summed budget is undefined (0 + undefined is NaN,
\* and NaN + x is NaN)
TotalIsNaN(sections) ==
    \E k \in 1..Len(sections) : \E j \in 1..Len(sections[k].entities) :
        sections[k].entities[j].budgetItem.revisedType = "undefined"

\* partOrder.forEach, from index i on
RECURSIVE PartsFrom(_, _, _)
PartsFrom(i, partMap, data) ==
    IF i > Len(partOrder) THEN <<>>
    ELSE LET partKey == partOrder[i]
         IN  IF partKey \notin DOMAIN partMap THEN PartsFrom(i + 1, partMap, data)
             ELSE LET sections  == SectionsOf(partMap[partKey])
                      partTotal == SumTotalBudget(sections)
                      partTotalRow == partTotals(data, partKey)
                      approved2025 == Approved2025Of(partTotalRow)
                      revised2026  == Revised2026Of(partTotalRow)
                  IN  IF ~TotalIsNaN(sections) /\ partTotal > 0
                      THEN <<[part |-> partKey, sections |-> sections,
                              totalBudget |-> partTotal,
                              approved2025 |-> approved2025,
                              varianceVs2025 |->
                                  VarianceVs2025(revised2026, approved2025)]>>
                             \o PartsFrom(i + 1, partMap, data)
                      ELSE PartsFrom(i + 1, partMap, data)

EmptyMap == [p \in {} |-> <<>>]

buildTree(data) ==
    IF Len(data) = 0 THEN <<>>
    ELSE LET entityRows  == FilterType(data, "entity_total")
             sectionRows == FilterType(data, "section_total")
             st1 == AddEntityRows(entityRows,
                        [partMap |-> EmptyMap, sectionsWithEntities |-> {}])
             st2 == AddSectionRows(sectionRows, st1)
         IN  PartsFrom(1, st2.partMap, data)

----------------------------------------------------------------------------
(* BudgetTreemap: one render (the partHeights.map body) *)

\* the insertion of an ascending sort: (a, b) => a.budget - b.budget
RECURSIVE InsertByBudgetAscending(_, _)
InsertByBudgetAscending(sorted, e) ==
    IF sorted = <<>> THEN <<e>>
    ELSE IF Head(sorted).budget <= e.budget
         THEN <<Head(sorted)>> \o InsertByBudgetAscending(Tail(sorted), e)
         ELSE <<e>> \o sorted

\* the element is placed after every element whose budget is not smaller:
\* Array.prototype.sort is stable
RECURSIVE InsertByBudget(_, _)
InsertByBudget(sorted, e) ==
    IF sorted = <<>> THEN <<e>>
    ELSE IF Head(sorted).budget >= e.budget
         THEN <<Head(sorted)>> \o InsertByBudget(Tail(sorted), e)
         ELSE <<e>> \o sorted

\* entities.sort((a, b) => b.budget - a.budget)
RECURSIVE SortByBudget(_)
SortByBudget(entities) ==
    IF entities = <<>> THEN <<>>
    ELSE InsertByBudget(SortByBudget(SubSeq(entities, 1, Len(entities) - 1)),
                        entities[Len(entities)])

\* part.sections.filter(s => s.entities.length > 0)
RECURSIVE NonEmptySections(_)
NonEmptySections(sections) ==
    IF sections = <<>> THEN <<>>
    ELSE IF Len(Head(sections).entities) > 0
         THEN <<Head(sections)>> \o NonEmptySections(Tail(sections))
         ELSE NonEmptySections(Tail(sections))

\* the squarify call of a render: BudgetTreemap.tsx ("desktop") or the
\* responsive component with isMobile false ("aspect") or true ("mobile")
Layout(variant, items) ==
    IF variant = "desktop"
    THEN squarify(items, Num(0), Num(0), Num(100), Num(100))
    ELSE squarifyMobile(items, Num(0), Num(0), Num(100), Num(100), variant = "mobile")

\* the items and rectangles computed for one part
RenderPart(variant, part) ==
    LET sections     == NonEmptySections(part.sections)
        sectionItems == [k \in 1..Len(sections) |->
                            [value |-> Num(sections[k].totalBudget),
                             data |-> sections[k].section]]
        sectionRects == Layout(variant, sectionItems)
        EntityCall(section) ==
            LET sorted      == SortByBudget(section.entities)
                entityItems == [j \in 1..Len(sorted) |->
                                   [value |-> Num(sorted[j].budget),
                                    data |-> sorted[j]]]
            IN  [section |-> section.section, entityItems |-> entityItems,
                 entityRects |-> Layout(variant, entityItems)]
        SectionOf(key) == sections[SectionIndex(sections, key)]
    IN  [part |-> part.part,
         sectionItems |-> IF Len(sections) = 0 THEN <<>> ELSE sectionItems,
         sectionRects |-> IF Len(sections) = 0 THEN <<>> ELSE sectionRects,
         entityCalls |-> IF Len(sections) = 0 THEN <<>>
                         ELSE [r \in 1..Len(sectionRects) |->
                                  EntityCall(SectionOf(sectionRects[r].data))]]

\* section.entities.sort(...) sorts the array of the tree itself
SortedInPlace(part, call) ==
    [part EXCEPT !.sections =
        [k \in 1..Len(part.sections) |->
            IF \E r \in 1..Len(call.sectionRects) :
                   call.sectionRects[r].data = part.sections[k].section
            THEN [part.sections[k] EXCEPT !.entities = SortByBudget(@)]
            ELSE part.sections[k]]]

----------------------------------------------------------------------------
(* Specification of the page: fetch, aggregation and treemap renders *)

\* revised estimates of the input rows range over 0..MaxRevised
MaxRevised == 2
\* longest budget.json
MaxRows == 3

InputParts == {"Part I", "Part II"}

InputSections == {"10", "2"}

InputNames == {"A", "B"}

InputRows ==
    {[row_type |-> "part_total", Part |-> p, Section |-> "", EntityName |-> "",
      approved2025 |-> 0, proposed2026 |-> 0, revisedType |-> "number", revised2026 |-> v] :
        p \in InputParts, v \in 0..MaxRevised}
    \cup
    {[row_type |-> "section_total", Part |-> p, Section |-> s, EntityName |-> "",
      approved2025 |-> 0, proposed2026 |-> 0, revisedType |-> "number", revised2026 |-> v] :
        p \in InputParts, s \in InputSections, v \in 0..MaxRevised}
    \cup
    {[row_type |-> "entity_total", Part |-> p, Section |-> s, EntityName |-> e,
      approved2025 |-> 0, proposed2026 |-> 0, revisedType |-> "number", revised2026 |-> v] :
        p \in InputParts, s \in InputSections, e \in InputNames, v \in 0..MaxRevised}

HomeInit ==
    /\ response \in UNION {[1..n -> InputRows] : n \in 0..MaxRows}
    /\ budgetData = <<>>
    /\ loading = TRUE
    /\ parts = <<>>
    /\ treemap = <<>>
    /\ sqItems = <<>>
    /\ sqBox = [x |-> 0, y |-> 0, width |-> 100, height |-> 100]
    /\ sqCall = "none"
    /\ sqRects = <<>>
    /\ expanded = {}
    /\ rows = <<>>
    /\ selectedEntity = <<>>
    /\ lastClick = <<>>
    /\ responseIsArray \in (IF response = <<>> THEN BOOLEAN ELSE {TRUE})
    /\ crashed = FALSE
    /\ TicksIdle
    /\ HoverIdle
    /\ ModalIdle

\* .then(data => { setBudgetData(data); setLoading(false) }) and the render
\* that follows, which recomputes the parts memo.  A JSON value that is no
\* array (an object: response holds no rows) is stored like any other; the
\* memo then evaluates budgetData.length === 0 to false and calls
\* budgetData.filter, which is no function: the render throws
FetchResolved ==
    /\ loading
    /\ budgetData' = response
    /\ loading' = FALSE
    /\ parts' = IF responseIsArray THEN buildTree(response) ELSE parts
    /\ crashed' = ~responseIsArray
    /\ UNCHANGED <<response, treemap, responseIsArray>>
    /\ UNCHANGED sqVars
    /\ UNCHANGED lollipopVars
    /\ UNCHANGED tickVars
    /\ UNCHANGED hoverVars
    /\ UNCHANGED modalVars

\* .catch(() => setLoading(false))
FetchFailed ==
    /\ loading
    /\ loading' = FALSE
    /\ UNCHANGED <<response, budgetData, parts, treemap>>
    /\ UNCHANGED pageVars
    /\ UNCHANGED sqVars
    /\ UNCHANGED lollipopVars
    /\ UNCHANGED tickVars
    /\ UNCHANGED hoverVars
    /\ UNCHANGED modalVars

\* a render of BudgetTreemap (not shown while loading, nor once a render
\* of the page threw)
RenderTreemap ==
    /\ ~loading
    /\ ~crashed
    /\ \E variant \in {"desktop", "aspect", "mobile"} :
          treemap' = [i \in 1..Len(parts) |-> RenderPart(variant, parts[i])]
    /\ parts' = [i \in 1..Len(parts) |-> SortedInPlace(parts[i], treemap'[i])]
    /\ UNCHANGED <<response, budgetData, loading>>
    /\ UNCHANGED pageVars
    /\ UNCHANGED sqVars
    /\ UNCHANGED lollipopVars
    /\ UNCHANGED tickVars
    /\ UNCHANGED hoverVars
    /\ UNCHANGED modalVars

HomeNext == FetchResolved \/ FetchFailed \/ RenderTreemap

SpecHome == HomeInit /\ [][HomeNext]_vars

----------------------------------------------------------------------------
(* Properties of the tree *)

Range(seq) == {seq[i] : i \in 1..Len(seq)}

\* the sum of f[i] over a sequence of integers, left to right
RECURSIVE SumSeq(_)
SumSeq(f) == IF f = <<>> THEN 0 ELSE f[1] + SumSeq(Tail(f))

\* the section_total and entity_total rows of the input for one section
RowsOfSection(data, type, partKey, sectionKey) ==
    {i \in 1..Len(data) : /\ data[i].row_type = type
                          /\ data[i].Part = partKey
                          /\ data[i].Section = sectionKey}

IsSynthetic(e) == e.budgetItem.row_type = "section_total"

\* C3: every Section's totalBudget is the sum of the budgets of its retained
\* entities and every Part's totalBudget is the sum of its Sections' totals
C3_TotalsAreSums ==
    \A i \in 1..Len(parts) :
        /\ parts[i].totalBudget =
              SumSeq([k \in 1..Len(parts[i].sections) |-> parts[i].sections[k].totalBudget])
        /\ \A k \in 1..Len(parts[i].sections) :
              LET sec == parts[i].sections[k]
              IN  sec.totalBudget = SumSeq([j \in 1..Len(sec.entities) |-> sec.entities[j].budget])

\* a Part with two Sections, one of which has a section_total row in the
\* input that carries another value than the Section's total in the tree
C3_Witness ==
    \E i \in 1..Len(parts) :
        /\ Len(parts[i].sections) = 2
        /\ \E k \in 1..2 :
              \E r \in RowsOfSection(budgetData, "section_total", parts[i].part,
                                     parts[i].sections[k].section) :
                  /\ budgetData[r].revised2026 > 0
                  /\ budgetData[r].revised2026 # parts[i].sections[k].totalBudget

\* C4 as stated: a synthetic leaf only in a section for which the input has no
\* entity_total row at all
C4_SyntheticOnlyWithoutEntityRows ==
    \A i \in 1..Len(parts) : \A k \in 1..Len(parts[i].sections) :
        LET sec == parts[i].sections[k]
        IN  (\E j \in 1..Len(sec.entities) : IsSynthetic(sec.entities[j]))
               => RowsOfSection(budgetData, "entity_total", parts[i].part, sec.section) = {}

QualifyingEntityRows(data, partKey, sectionKey) ==
    {r \in RowsOfSection(data, "entity_total", partKey, sectionKey) :
        data[r].revised2026 > 0}

\* C4 (amended): a synthetic leaf only in a section for which the input has no
\* entity_total row with revised > 0; such a section holds no other leaf; a
\* section with a qualifying entity row holds no synthetic leaf; and an input
\* with one section_total row (revised v > 0) and no entity row gives exactly
\* one Part holding one synthetic leaf of budget v
C4_SyntheticOnlyWithoutQualifyingEntities ==
    /\ \A i \in 1..Len(parts) : \A k \in 1..Len(parts[i].sections) :
          LET sec       == parts[i].sections[k]
              synthetic == {j \in 1..Len(sec.entities) : IsSynthetic(sec.entities[j])}
          IN  /\ synthetic # {}
                   => /\ QualifyingEntityRows(budgetData, parts[i].part, sec.section) = {}
                      /\ synthetic = 1..Len(sec.entities)
              /\ QualifyingEntityRows(budgetData, parts[i].part, sec.section) # {}
                   => synthetic = {}
    /\ (/\ ~loading
        /\ FilterType(budgetData, "entity_total") = <<>>
        /\ Len(FilterType(budgetData, "section_total")) = 1
        /\ FilterType(budgetData, "section_total")[1].revised2026 > 0)
         => /\ Len(parts) = 1
            /\ Len(parts[1].sections) = 1
            /\ Len(parts[1].sections[1].entities) = 1
            /\ IsSynthetic(parts[1].sections[1].entities[1])
            /\ parts[1].sections[1].entities[1].budget =
                  FilterType(budgetData, "section_total")[1].revised2026

\* a section_total row with revised > 0 was skipped: its section is in the
\* tree with a qualifying entity as its only leaf
C4_Witness ==
    \E i \in 1..Len(parts) : \E k \in 1..Len(parts[i].sections) :
        LET sec == parts[i].sections[k]
        IN  /\ Len(sec.entities) = 1
            /\ ~IsSynthetic(sec.entities[1])
            /\ \E r \in RowsOfSection(budgetData, "section_total", parts[i].part,
                                      sec.section) : budgetData[r].revised2026 > 0

\* the leaves of the tree
Leaves ==
    UNION {UNION {Range(parts[i].sections[k].entities) :
                     k \in 1..Len(parts[i].sections)} : i \in 1..Len(parts)}

\* the entity items and rectangles of the last treemap render
EntityCalls == UNION {Range(treemap[i].entityCalls) : i \in 1..Len(treemap)}

\* C5: no row with revised <= 0 is a leaf or receives a rectangle; leaves,
\* Sections and Parts of the tree have a total > 0; every item handed to
\* squarify by the treemap has value > 0
C5_OnlyPositiveBudgets ==
    /\ \A e \in Leaves : e.budget > 0 /\ e.budgetItem.revised2026 > 0
    /\ \A i \in 1..Len(parts) :
          /\ parts[i].totalBudget > 0
          /\ \A k \in 1..Len(parts[i].sections) : parts[i].sections[k].totalBudget > 0
    /\ \A i \in 1..Len(treemap) :
          /\ \A k \in 1..Len(treemap[i].sectionItems) :
                Gt(treemap[i].sectionItems[k].value, Num(0))
          /\ Len(treemap[i].sectionRects) = Len(treemap[i].sectionItems)
    /\ \A c \in EntityCalls :
          /\ \A j \in 1..Len(c.entityItems) : Gt(c.entityItems[j].value, Num(0))
          /\ Len(c.entityRects) = Len(c.entityItems)
          /\ \A j \in 1..Len(c.entityRects) :
                /\ c.entityRects[j].data \in Leaves
                /\ c.entityRects[j].data.budgetItem.revised2026 > 0

\* the treemap was rendered from an input that holds, for a section that got
\* rectangles, an entity_total row with revised = 0
C5_Witness ==
    \E i \in 1..Len(treemap) : \E c \in Range(treemap[i].entityCalls) :
        /\ Len(c.entityRects) > 0
        /\ \E r \in RowsOfSection(budgetData, "entity_total", treemap[i].part, c.section) :
              budgetData[r].revised2026 = 0

Perms(n) == {f \in [1..n -> 1..n] : \A a, b \in 1..n : f[a] = f[b] => a = b}

\* the Parts of a tree in order, each with its Sections in order; the
\* entities of a Section as a set
Shape(tree) ==
    [i \in 1..Len(tree) |->
        [part |-> tree[i].part, totalBudget |-> tree[i].totalBudget,
         sections |-> [k \in 1..Len(tree[i].sections) |->
                          [section |-> tree[i].sections[k].section,
                           totalBudget |-> tree[i].sections[k].totalBudget,
                           entities |-> Range(tree[i].sections[k].entities)]]]]

\* C6: every permutation of the input rows gives the same tree: the same
\* Parts in the same order, each with the same Sections in the same order
C6_OrderIndependent ==
    ~loading =>
        \A f \in Perms(Len(budgetData)) :
            Shape(buildTree([i \in 1..Len(budgetData) |-> budgetData[f[i]]])) = Shape(parts)

\* C11: once built, the tree is never mutated in place: after any number of
\* treemap renders the tree of the page, the order of every Section's
\* entities included, is what buildTree returned for the loaded rows
C11_TreeNeverMutated ==
    ~loading => parts = buildTree(budgetData)

----------------------------------------------------------------------------
(* BudgetLollipop: the row list *)

PART_ORDER == partOrder

\* Math.ceil
Ceil(a) == IF a.d = 0 THEN a ELSE Num(-((-a.n) \div a.d))

\* generateTicks: amounts are in units of 10,000,000, so that the targets
\* 100_000_000, 250_000_000, 500_000_000, 750_000_000, 1_000_000_000 are
targets == <<Num(10), Num(25), Num(50), Num(75), Num(100)>>

\* if (t < maxValue): a target equal to the maximum is left out
TickIncludedBelow(t, max) == Lt(t, max)

\* if (t <= maxValue)
TickIncluded(t, max) == Le(t, max)

\* for (const t of targets) { if (t <= maxValue) ticks.push(t); }
RECURSIVE PushTargets(_, _, _)
PushTargets(acc, k, max) ==
    IF k > Len(targets) THEN acc
    ELSE PushTargets(IF TickIncluded(targets[k], max) THEN Append(acc, targets[k]) ELSE acc,
                     k + 1, max)

\* the last tick is compared with half of the maximum
NeedsExtraTickBelowHalf(last, max) == Lt(last, Mul(max, Norm(1, 2)))

\* ticks[ticks.length - 1] < maxValue * 0.9
NeedsExtraTick(last, max) == Lt(last, Mul(max, Norm(9, 10)))

\* Math.ceil(maxValue / 100_000_000) * 100_000_000
RoundUp(max) == Mul(Ceil(Div(max, Num(10))), Num(10))

generateTicks(max) ==
    LET pushed == PushTargets(<<Num(0)>>, 1, max)
    IN  IF NeedsExtraTick(pushed[Len(pushed)], max)
        THEN Append(pushed, RoundUp(max))
        ELSE pushed

\* partTotals.get(partKey): the last part_total row of the Part, <<>> if none
PartTotal(data, partKey) ==
    LET hits == {i \in 1..Len(data) :
                    data[i].row_type = "part_total" /\ data[i].Part = partKey}
    IN  IF hits = {} THEN <<>>
        ELSE <<data[CHOOSE i \in hits : \A j \in hits : j <= i]>>

\* the sectionTotals map as its entries in insertion order: a key keeps the
\* position of its first set and the value of its last set
RECURSIVE SectionTotals(_)
SectionTotals(data) ==
    IF data = <<>> THEN <<>>
    ELSE LET before == SectionTotals(SubSeq(data, 1, Len(data) - 1))
             b      == data[Len(data)]
             key    == SectionId(b.Part, b.Section)
         IN  IF b.row_type # "section_total" THEN before
             ELSE IF \E k \in 1..Len(before) : before[k].key = key
             THEN [k \in 1..Len(before) |->
                      IF before[k].key = key THEN [key |-> key, row |-> b] ELSE before[k]]
             ELSE Append(before, [key |-> key, row |-> b])

\* sectionsPerPart.get(partKey) || []: one element per section_total row
SectionsPerPart(data, partKey) ==
    FilterType([i \in 1..Len(data) |->
                   IF data[i].Part = partKey THEN data[i]
                   ELSE [data[i] EXCEPT !.row_type = "other part"]], "section_total")

\* entities.get(key) || []: the entity_total rows of the section, in input order
RECURSIVE EntitiesOf(_, _)
EntitiesOf(data, key) ==
    IF data = <<>> THEN <<>>
    ELSE IF Head(data).row_type = "entity_total"
              /\ SectionId(Head(data).Part, Head(data).Section) = key
         THEN <<Head(data)>> \o EntitiesOf(Tail(data), key)
         ELSE EntitiesOf(Tail(data), key)

\* key.startsWith(partKey + "-"), for the key of a section_total row: no Part
\* id of the input followed by "-" is a prefix of another Part id, so the
\* test holds exactly for the rows of the Part
KeyStartsWith(entry, partKey) == entry.row.Part = partKey

\* the characters of the section identifiers of the input
Chars == [s \in InputSections |-> IF s = "10" THEN <<"1", "0">> ELSE <<"2">>]

\* the collation order of the characters that occur
CharRank == [c \in {"0", "1", "2"} |-> IF c = "0" THEN 0 ELSE IF c = "1" THEN 1 ELSE 2]

\* a.localeCompare(b) < 0 for digit strings: the first differing character
\* decides, a proper prefix comes first
RECURSIVE CharsBefore(_, _)
CharsBefore(a, b) ==
    IF b = <<>> THEN FALSE
    ELSE IF a = <<>> THEN TRUE
    ELSE IF Head(a) = Head(b) THEN CharsBefore(Tail(a), Tail(b))
    ELSE CharRank[Head(a)] < CharRank[Head(b)]

LocaleBefore(a, b) == CharsBefore(Chars[a], Chars[b])

\* sectionsForPart.sort((a, b) => a.Section.localeCompare(b.Section)), stable
RECURSIVE InsertBySection(_, _)
InsertBySection(sorted, b) ==
    IF sorted = <<>> THEN <<b>>
    ELSE IF LocaleBefore(b.Section, Head(sorted).Section)
         THEN <<b>> \o sorted
         ELSE <<Head(sorted)>> \o InsertBySection(Tail(sorted), b)

RECURSIVE SortBySection(_)
SortBySection(sections) ==
    IF sections = <<>> THEN <<>>
    ELSE InsertBySection(SortBySection(SubSeq(sections, 1, Len(sections) - 1)),
                         sections[Len(sections)])

\* sectionEntities.sort((a, b) => a.revised - b.revised): ascending
RECURSIVE SortByRevisedAscending(_)
SortByRevisedAscending(entityRows) ==
    IF entityRows = <<>> THEN <<>>
    ELSE LET sorted == SortByRevisedAscending(SubSeq(entityRows, 1, Len(entityRows) - 1))
             b      == entityRows[Len(entityRows)]
             keep   == {k \in 1..Len(sorted) : sorted[k].revised2026 <= b.revised2026}
         IN  SubSeq(sorted, 1, Cardinality(keep)) \o <<b>>
               \o SubSeq(sorted, Cardinality(keep) + 1, Len(sorted))

\* sectionEntities.sort((a, b) => (b.revised || 0) - (a.revised || 0)), stable
RECURSIVE SortByRevised(_)
SortByRevised(entityRows) ==
    IF entityRows = <<>> THEN <<>>
    ELSE LET sorted == SortByRevised(SubSeq(entityRows, 1, Len(entityRows) - 1))
             b      == entityRows[Len(entityRows)]
             keep   == {k \in 1..Len(sorted) : sorted[k].revised2026 >= b.revised2026}
         IN  SubSeq(sorted, 1, Cardinality(keep)) \o <<b>>
               \o SubSeq(sorted, Cardinality(keep) + 1, Len(sorted))

\* the sections of a Part are shown whether or not the Part is expanded
ShowChildrenAlways(expandedSet, id) == TRUE

\* if (expanded.has(partKey)) / if (expanded.has(sectionKey))
ShowChildren(expandedSet, id) == id \in expandedSet

LollipopRow(id, level, partKey, sectionKey, hasChildren, b) ==
    [id |-> id, level |-> level, approved2025 |-> b.approved2025,
     proposed2026 |-> b.proposed2026, revised2026 |-> b.revised2026,
     partKey |-> partKey, sectionKey |-> sectionKey, hasChildren |-> hasChildren,
     budgetItem |-> b]

\* sectionEntities.forEach: the level-2 rows of a section
EntityRows(sectionEntities, partKey, sectionData) ==
    [j \in 1..Len(sectionEntities) |->
        LollipopRow(SectionId(partKey, sectionData.Section) \o "-"
                       \o sectionEntities[j].EntityName,
                    2, partKey, sectionData.Section, FALSE, sectionEntities[j])]

\* sectionsForPart.forEach, from the first section of the list on
RECURSIVE SectionRows(_, _, _, _)
SectionRows(sectionsForPart, data, expandedSet, partKey) ==
    IF sectionsForPart = <<>> THEN <<>>
    ELSE LET sectionData     == Head(sectionsForPart)
             sectionKey      == SectionId(partKey, sectionData.Section)
             sectionEntities == EntitiesOf(data, sectionKey)
             hasChildren     == Len(sectionEntities) > 0
         IN  <<LollipopRow(sectionKey, 1, partKey, sectionData.Section,
                           hasChildren, sectionData)>>
               \o (IF ShowChildren(expandedSet, sectionKey)
                   THEN EntityRows(SortByRevised(sectionEntities), partKey, sectionData)
                   ELSE <<>>)
               \o SectionRows(Tail(sectionsForPart), data, expandedSet, partKey)

\* sectionTotals.forEach((s, key) => { if (key.startsWith(...)) push(s) })
RECURSIVE SectionsForPart(_, _)
SectionsForPart(entries, partKey) ==
    IF entries = <<>> THEN <<>>
    ELSE IF KeyStartsWith(Head(entries), partKey)
         THEN <<Head(entries).row>> \o SectionsForPart(Tail(entries), partKey)
         ELSE SectionsForPart(Tail(entries), partKey)

\* PART_ORDER.forEach, from index i on
RECURSIVE RowsFrom(_, _, _)
RowsFrom(i, data, expandedSet) ==
    IF i > Len(PART_ORDER) THEN <<>>
    ELSE LET partKey  == PART_ORDER[i]
             partData == PartTotal(data, partKey)
         IN  IF partData = <<>> THEN RowsFrom(i + 1, data, expandedSet)
             ELSE <<LollipopRow(partKey, 0, partKey, "",
                                Len(SectionsPerPart(data, partKey)) > 0, partData[1])>>
                    \o (IF ShowChildren(expandedSet, partKey)
                        THEN SectionRows(
                                 SortBySection(SectionsForPart(SectionTotals(data), partKey)),
                                 data, expandedSet, partKey)
                        ELSE <<>>)
                    \o RowsFrom(i + 1, data, expandedSet)

\* the rows of a render of BudgetLollipop
buildRows(data, expandedSet) == RowsFrom(1, data, expandedSet)

\* Math.max(...rows.map(r => Math.max(r.approved2025, r.proposed2026,
\* r.revised2026))), -Infinity for no rows; amounts in the unit of the ticks
RECURSIVE MaxOfRows(_)
MaxOfRows(lollipopRows) ==
    IF lollipopRows = <<>> THEN [n |-> -1, d |-> 0]
    ELSE LET r == Head(lollipopRows)
         IN  Max2(Max2(Max2(Num(r.approved2025), Num(r.proposed2026)),
                       Num(r.revised2026)),
                  MaxOfRows(Tail(lollipopRows)))

\* const scaleMax = ticks[ticks.length - 1]
scaleMax(tickList) == tickList[Len(tickList)]

\* const scale = (val) => (val / scaleMax) * 100
scale(val, tickList) == Mul(Div(val, scaleMax(tickList)), Num(100))

\* the updater of toggleExpand without the delete branch
ToggleAddOnly(prev, id) == prev \cup {id}

\* the updater of toggleExpand: next.has(id) ? next.delete(id) : next.add(id)
Toggle(prev, id) == IF id \in prev THEN prev \ {id} ELSE prev \cup {id}

\* toggleExpand that, on collapse, also forgets the Sections below the id
toggleExpandForgettingSections(prev, id, hasChildren) ==
    IF ~hasChildren THEN prev
    ELSE IF id \in prev
         THEN prev \ ({id} \cup {SectionId(id, s) : s \in InputSections})
         ELSE prev \cup {id}

\* toggleExpand(id, hasChildren)
toggleExpand(prev, id, hasChildren) == IF ~hasChildren THEN prev ELSE Toggle(prev, id)

\* the TreemapEntity handleRowClick passes to onEntityClick
ClickedEntity(row) ==
    [id |-> row.id,
     name |-> IF row.budgetItem.EntityName # "" THEN row.budgetItem.EntityName
              ELSE "Section name",
     part |-> row.partKey, section |-> row.sectionKey,
     budget |-> row.revised2026, budgetItem |-> row.budgetItem]

----------------------------------------------------------------------------
(* Specification of the lollipop chart: Home has loaded budgetData and shows *)
(* BudgetLollipop; the user clicks rows                                      *)

\* longest budget.json shown by the lollipop specification
MaxLollipopRows == 4

\* the rows of the lollipop specification: both Parts' part_total rows, the
\* section_total rows of Part I and of section "2" of Part II, the
\* entity_total rows "A" of Part I; revised 0 or MaxRevised
LollipopInputRows ==
    {r \in InputRows :
        /\ r.revised2026 \in {0, MaxRevised}
        /\ r.EntityName # "B"
        /\ \/ r.row_type = "part_total"
           \/ r.Part = "Part I"
           \/ (r.row_type = "section_total" /\ r.Section = "2")}

LollipopInit ==
    /\ response \in UNION {[1..n -> LollipopInputRows] : n \in 1..MaxLollipopRows}
    /\ budgetData = response
    /\ loading = FALSE
    /\ parts = buildTree(response)
    /\ treemap = <<>>
    /\ expanded = {}
    /\ rows = buildRows(response, {})
    /\ selectedEntity = <<>>
    /\ lastClick = <<>>
    /\ responseIsArray = TRUE
    /\ crashed = FALSE
    /\ maxValue = MaxOfRows(rows)
    /\ ticks = generateTicks(maxValue)
    /\ HoverIdle
    /\ ModalIdle
    /\ sqItems = <<>>
    /\ sqBox = [x |-> 0, y |-> 0, width |-> 100, height |-> 100]
    /\ sqCall = "none"
    /\ sqRects = <<>>

\* onClick={() => handleRowClick(row)} and the render that follows
HandleRowClick(row) ==
    /\ lastClick' = <<row>>
    /\ expanded' = IF row.hasChildren THEN toggleExpand(expanded, row.id, TRUE)
                   ELSE expanded
    /\ selectedEntity' = IF ~row.hasChildren /\ (row.level = 1 \/ row.level = 2)
                         THEN <<ClickedEntity(row)>>
                         ELSE selectedEntity
    /\ rows' = buildRows(budgetData, expanded')
    /\ UNCHANGED homeVars
    /\ UNCHANGED sqVars
    /\ UNCHANGED pageVars
    /\ maxValue' = MaxOfRows(rows')
    /\ ticks' = generateTicks(maxValue')
    /\ UNCHANGED hoverVars
    /\ UNCHANGED modalVars

RowClick == \E k \in 1..Len(rows) : HandleRowClick(rows[k])

LollipopNext == RowClick

SpecLollipop == LollipopInit /\ [][LollipopNext]_vars

----------------------------------------------------------------------------
(* Properties of the lollipop rows *)

RowsAtLevel(level) == {k \in 1..Len(rows) : rows[k].level = level}

\* C7: a Part row for every canonical Part with a part_total row; a Section
\* row only if its Part id is expanded; an Entity row only if its Section's
\* composite id and its Part id are expanded
C7_RowsFollowExpandSet ==
    /\ \A i \in 1..Len(PART_ORDER) :
          (\E r \in 1..Len(budgetData) :
               budgetData[r].row_type = "part_total" /\ budgetData[r].Part = PART_ORDER[i])
            => \E k \in RowsAtLevel(0) : rows[k].id = PART_ORDER[i]
    /\ \A k \in RowsAtLevel(1) : rows[k].partKey \in expanded
    /\ \A k \in RowsAtLevel(2) :
          /\ (rows[k].partKey \o "-" \o rows[k].sectionKey) \in expanded
          /\ rows[k].partKey \in expanded

\* an Entity row is shown: its Part and its Section were expanded by clicks
C7_Witness ==
    /\ RowsAtLevel(2) # {}
    /\ RowsAtLevel(1) # {}
    /\ Cardinality(expanded) = 2

\* the position of a Part id in the canonical sequence
PartPosition(partKey) == CHOOSE i \in 1..Len(PART_ORDER) : PART_ORDER[i] = partKey

\* lexicographic order of two section identifiers, character by character
LexicographicallyBefore(a, b) ==
    LET ca == Chars[a]
        cb == Chars[b]
    IN  \/ \E n \in 1..MinInt(Len(ca), Len(cb)) :
              /\ \A m \in 1..(n - 1) : ca[m] = cb[m]
              /\ CharRank[ca[n]] < CharRank[cb[n]]
        \/ (Len(ca) < Len(cb) /\ \A m \in 1..Len(ca) : ca[m] = cb[m])

\* the nearest row above k that has the given level, 0 if none
NearestAbove(k, level) ==
    LET above == {j \in 1..(k - 1) : rows[j].level = level}
    IN  IF above = {} THEN 0 ELSE CHOOSE j \in above : \A i \in above : i <= j

\* C8: Part rows in canonical order, the Section rows of a Part in
\* lexicographic order of section identifier, the Entity rows of a Section in
\* non-increasing order of revised_2026, children directly below their node
C8_RowsOrdered ==
    /\ \A j, k \in RowsAtLevel(0) :
          j < k => PartPosition(rows[j].id) < PartPosition(rows[k].id)
    /\ \A k \in RowsAtLevel(1) :
          LET p == NearestAbove(k, 0)
              s == NearestAbove(k, 1)
          IN  /\ p # 0
              /\ rows[p].id = rows[k].partKey
              /\ (s > p) => LexicographicallyBefore(rows[s].sectionKey, rows[k].sectionKey)
    /\ \A k \in RowsAtLevel(2) :
          LET s == NearestAbove(k, 1)
          IN  /\ s # 0
              /\ NearestAbove(k, 0) < s
              /\ rows[s].id = rows[k].partKey \o "-" \o rows[k].sectionKey
              /\ rows[k - 1].level = 2 => rows[k - 1].revised2026 >= rows[k].revised2026

\* the position of a row's source in budgetData (the first one)
SourceIndex(row) ==
    CHOOSE r \in 1..Len(budgetData) :
        /\ budgetData[r] = row.budgetItem
        /\ \A q \in 1..(r - 1) : budgetData[q] # row.budgetItem

\* the order was made by the code and not by the input: two Entity rows of an
\* expanded Section are shown in the opposite of their input order
C8_Witness ==
    \E j, k \in 1..Len(rows) :
        /\ k = j + 1
        /\ rows[j].level = 2
        /\ rows[k].level = 2
        /\ rows[j].revised2026 > rows[k].revised2026
        /\ SourceIndex(rows[k]) < SourceIndex(rows[j])

\* what a click on a row with children does
ToggledOnly(row) ==
    /\ expanded' = (expanded \ {row.id}) \cup ({row.id} \ expanded)
    /\ selectedEntity' = selectedEntity

\* what a click on a row that raises the "selected" event does
SelectedOnly(row) ==
    /\ expanded' = expanded
    /\ Len(selectedEntity') = 1
    /\ selectedEntity'[1].id = row.id
    /\ selectedEntity'[1].budgetItem = row.budgetItem

----------------------------------------------------------------------------
(* Specification of generateTicks: the argument is drawn in the initial     *)
(* state and one call is made                                               *)

\* largest numerator of a maxValue argument (units of 10,000,000)
MaxTickArgument == 130

\* finite arguments, whole and half units, negative ones included, and the
\* values Math.max can return for no rows (-Infinity) or bad fields (NaN)
TickArguments ==
    {Norm(n, d) : n \in -MaxTickArgument..MaxTickArgument, d \in {1, 2}}
      \cup {NaN, [n |-> 1, d |-> 0], [n |-> -1, d |-> 0]}

TicksInit ==
    /\ maxValue \in TickArguments
    /\ ticks = <<>>
    /\ sqItems = <<>>
    /\ sqBox = [x |-> 0, y |-> 0, width |-> 100, height |-> 100]
    /\ sqCall = "none"
    /\ sqRects = <<>>
    /\ response = <<>>
    /\ budgetData = <<>>
    /\ loading = TRUE
    /\ parts = <<>>
    /\ treemap = <<>>
    /\ expanded = {}
    /\ rows = <<>>
    /\ selectedEntity = <<>>
    /\ lastClick = <<>>
    /\ responseIsArray = TRUE
    /\ crashed = FALSE
    /\ ModalIdle
    /\ HoverIdle

\* const ticks = generateTicks(maxValue)
CallGenerateTicks ==
    /\ ticks = <<>>
    /\ ticks' = generateTicks(maxValue)
    /\ UNCHANGED maxValue
    /\ UNCHANGED sqVars
    /\ UNCHANGED homeVars
    /\ UNCHANGED lollipopVars
    /\ UNCHANGED pageVars
    /\ UNCHANGED modalVars
    /\ UNCHANGED hoverVars

TicksNext == CallGenerateTicks

SpecTicks == TicksInit /\ [][TicksNext]_vars

\* the targets that are <= max, in ascending order
RECURSIVE TargetsUpTo(_, _)
TargetsUpTo(k, max) ==
    IF k > Len(targets) THEN <<>>
    ELSE (IF Le(targets[k], max) THEN <<targets[k]>> ELSE <<>>) \o TargetsUpTo(k + 1, max)

\* C12: for every maxValue the ticks start with 0 and are strictly
\* increasing: 0, then every candidate <= maxValue in ascending order, then
\* at most one more tick, strictly greater than all ticks before it
C12_TicksStartAtZeroAndIncrease ==
    ticks # <<>> =>
        LET base == <<Num(0)>> \o TargetsUpTo(1, maxValue)
        IN  /\ ticks[1] = Num(0)
            /\ \A i \in 1..(Len(ticks) - 1) : Lt(ticks[i], ticks[i + 1])
            /\ Len(ticks) \in {Len(base), Len(base) + 1}
            /\ SubSeq(ticks, 1, Len(base)) = base

\* a tick was appended after two included candidates
C12_Witness ==
    /\ Len(ticks) = 4
    /\ ticks[4] \notin Range(targets)

\* C13: for every maxValue >= 0 some tick is >= 0.9 x maxValue; the appended
\* tick is maxValue rounded up to the next multiple of 100M, and it is there
\* when the largest included candidate is below 90% of maxValue
C13_TickNearMaximum ==
    (ticks # <<>> /\ Ge(maxValue, Num(0))) =>
        LET base     == <<Num(0)>> \o TargetsUpTo(1, maxValue)
            ninety   == Mul(maxValue, Norm(9, 10))
        IN  /\ \E i \in 1..Len(ticks) : Ge(ticks[i], ninety)
            /\ Lt(base[Len(base)], ninety) =>
                  /\ Len(ticks) = Len(base) + 1
                  /\ Ge(ticks[Len(ticks)], maxValue)
                  /\ IsFinite(maxValue) =>
                        /\ Lt(Sub(ticks[Len(ticks)], maxValue), Num(10))
                        /\ Div(ticks[Len(ticks)], Num(10)).d = 1

\* the largest included candidate is below 90% of a maximum that is no
\* multiple of 100M, and the rounded-up tick was appended
C13_Witness ==
    /\ Len(ticks) >= 3
    /\ Lt(ticks[Len(ticks) - 1], Mul(maxValue, Norm(9, 10)))
    /\ Gt(ticks[Len(ticks)], maxValue)

----------------------------------------------------------------------------
(* Specification of row packing: squarify with forceMobileLayout and three  *)
(* or more items, as the responsive treemap calls it on a narrow screen     *)

\* longest item list handed to the row packing
MaxPackedItems == 6

\* the item values: 3 and 4 are near-equal (3/4 > 0.7), 1 is far from both
PackedValues == {1, 3, 4}

PackedLists == UNION {[1..n -> PackedValues] : n \in 3..MaxPackedItems}

PackedBoxes ==
    {[x |-> 0, y |-> 0, width |-> 100, height |-> 100],
     [x |-> 1, y |-> 2, width |-> 3, height |-> 2]}

RowPackingInit ==
    /\ sqItems \in PackedLists
    /\ sqBox \in PackedBoxes
    /\ sqCall = "none"
    /\ sqRects = <<>>
    /\ response = <<>>
    /\ budgetData = <<>>
    /\ loading = TRUE
    /\ parts = <<>>
    /\ treemap = <<>>
    /\ expanded = {}
    /\ rows = <<>>
    /\ selectedEntity = <<>>
    /\ lastClick = <<>>
    /\ responseIsArray = TRUE
    /\ crashed = FALSE
    /\ TicksIdle
    /\ HoverIdle
    /\ ModalIdle

RowPackingNext == CallSquarifyMobile

SpecRowPacking == RowPackingInit /\ [][RowPackingNext]_vars

\* the indices at which a row of the returned rectangles starts: the first
\* rectangle and every rectangle that lies lower than the one before it
RowStarts == {i \in 1..Len(sqRects) : i = 1 \/ sqRects[i].y # sqRects[i - 1].y}

\* the index of the last rectangle of the row that starts at i
RowEnd(i) ==
    IF \E j \in RowStarts : j > i
    THEN (CHOOSE j \in RowStarts : j > i /\ \A k \in RowStarts : k > i => j <= k) - 1
    ELSE Len(sqRects)

\* the lengths of the rows, top to bottom
RECURSIVE RowLengthsFrom(_)
RowLengthsFrom(i) ==
    IF i > Len(sqRects) THEN <<>>
    ELSE <<RowEnd(i) - i + 1>> \o RowLengthsFrom(RowEnd(i) + 1)

\* min item value / max item value of the call's items
UniformityOf(values) ==
    LET mx == CHOOSE v \in Range(values) : \A w \in Range(values) : w <= v
        mn == CHOOSE v \in Range(values) : \A w \in Range(values) : v <= w
    IN  Norm(mn, mx)

\* the target row size as claimed
ClaimedRowSize(values) ==
    LET u == UniformityOf(values)
    IN  IF Gt(u, Norm(7, 10)) /\ Len(values) >= 6 THEN 4
        ELSE IF Gt(u, Norm(5, 10)) /\ Len(values) >= 4 THEN 3
        ELSE 2

\* C14: in row-packing mode with n >= 3 items the rows hold the items in
\* input order, no row is longer than the target size (4 when u > 0.7 and
\* n >= 6, else 3 when u > 0.5 and n >= 4, else 2), a row shorter than the
\* target size is the last one or holds at least 2 items, and 6 near-equal
\* items (u > 0.7) give a row of 4 followed by a row of 2
C14_RowsOfTargetSize ==
    (sqCall = "mobile" /\ Len(sqItems) >= 3) =>
        LET lengths == RowLengthsFrom(1)
        IN  /\ Len(sqRects) = Len(sqItems)
            /\ \A i \in 1..Len(sqRects) : sqRects[i].data = i
            /\ \A r \in 1..Len(lengths) :
                  /\ lengths[r] <= ClaimedRowSize(sqItems)
                  /\ lengths[r] >= 2 \/ r = Len(lengths)
            /\ (Len(sqItems) = 6 /\ Gt(UniformityOf(sqItems), Norm(7, 10)))
                  => lengths = <<4, 2>>

\* the sum of the widths of the rectangles i..j
RECURSIVE SumWidths(_, _)
SumWidths(i, j) ==
    IF i > j THEN Num(0) ELSE Add(sqRects[i].width, SumWidths(i + 1, j))

\* the sum of the item values i..j
RECURSIVE SumValues(_, _)
SumValues(i, j) == IF i > j THEN 0 ELSE sqItems[i] + SumValues(i + 1, j)

\* the sum of the heights of the rows that start at the given indices
RECURSIVE SumRowHeights(_)
SumRowHeights(starts) ==
    IF starts = {} THEN Num(0)
    ELSE LET i == CHOOSE s \in starts : TRUE
         IN  Add(sqRects[i].height, SumRowHeights(starts \ {i}))

\* C15: in row-packing mode (positive item values) the rows are stacked top
\* to bottom from the box's y, each row's height is box height x (row sum /
\* total); inside a row the items go left to right from the box's x, each
\* width is box width x (value / row sum); so the widths of every row sum to
\* the box width and the row heights sum to the box height
C15_RowsStackedAndFilled ==
    (sqCall = "mobile" /\ Len(sqItems) >= 3) =>
        LET total == SumInts(sqItems)
        IN  /\ \A i \in RowStarts :
                  LET j      == RowEnd(i)
                      rowSum == SumValues(i, j)
                  IN  /\ sqRects[i].x = Num(sqBox.x)
                      /\ sqRects[i].y = IF i = 1 THEN Num(sqBox.y)
                                        ELSE Add(sqRects[i - 1].y, sqRects[i - 1].height)
                      /\ SumWidths(i, j) = Num(sqBox.width)
                      /\ \A k \in i..j :
                            /\ sqRects[k].y = sqRects[i].y
                            /\ sqRects[k].height =
                                  Mul(Num(sqBox.height), Norm(rowSum, total))
                            /\ sqRects[k].width =
                                  Mul(Num(sqBox.width), Norm(sqItems[k], rowSum))
                            /\ k > i => sqRects[k].x =
                                           Add(sqRects[k - 1].x, sqRects[k - 1].width)
            /\ SumRowHeights(RowStarts) = Num(sqBox.height)

\* five items were packed into rows of 3 and 2 of unequal heights in the
\* 100 x 100 box
C15_Witness ==
    /\ sqCall = "mobile"
    /\ sqBox.width = 100
    /\ RowLengthsFrom(1) = <<3, 2>>
    /\ sqRects[1].height # sqRects[4].height
    /\ sqRects[1].width # sqRects[2].width

----------------------------------------------------------------------------
(* Specification of the aggregation over rows that carry a 2025 approved    *)
(* amount and whose 2026 revised estimate may be null or absent             *)

\* 2025 approved amounts of the part_total rows range over 0..MaxApproved
MaxApproved == 1
\* longest budget.json of this specification
MaxAnnotatedRows == 3

\* the '2026 revised estimate' field: a number, null, or absent (undefined)
RevisedFields ==
    {<<"number", 0>>, <<"number", MaxRevised>>, <<"null", 0>>, <<"undefined", 0>>}

AnnotatedRows ==
    {[row_type |-> "part_total", Part |-> p, Section |-> "", EntityName |-> "",
      approved2025 |-> a, proposed2026 |-> 0, revisedType |-> f[1], revised2026 |-> f[2]] :
        p \in InputParts, a \in 0..MaxApproved, f \in RevisedFields}
    \cup
    {[row_type |-> "section_total", Part |-> p, Section |-> "2", EntityName |-> "",
      approved2025 |-> 0, proposed2026 |-> 0, revisedType |-> f[1], revised2026 |-> f[2]] :
        p \in InputParts, f \in RevisedFields}
    \cup
    {[row_type |-> "entity_total", Part |-> p, Section |-> "2", EntityName |-> "A",
      approved2025 |-> 0, proposed2026 |-> 0, revisedType |-> f[1], revised2026 |-> f[2]] :
        p \in InputParts, f \in RevisedFields}

AnnotatedInit ==
    /\ response \in UNION {[1..n -> AnnotatedRows] : n \in 0..MaxAnnotatedRows}
    /\ responseIsArray = TRUE
    /\ budgetData = <<>>
    /\ loading = TRUE
    /\ parts = <<>>
    /\ treemap = <<>>
    /\ crashed = FALSE
    /\ sqItems = <<>>
    /\ sqBox = [x |-> 0, y |-> 0, width |-> 100, height |-> 100]
    /\ sqCall = "none"
    /\ sqRects = <<>>
    /\ expanded = {}
    /\ rows = <<>>
    /\ selectedEntity = <<>>
    /\ lastClick = <<>>
    /\ TicksIdle
    /\ HoverIdle
    /\ ModalIdle

AnnotatedNext == FetchResolved \/ FetchFailed

SpecAnnotated == AnnotatedInit /\ [][AnnotatedNext]_vars

\* C16: for every Part of the tree, approved2025 is the `2025 approved` of
\* the Part's part_total row and varianceVs2025 is (revised - approved) /
\* approved x 100 of that row when approved > 0, else 0 (both 0 without such
\* a row); the Part's totalBudget, the sum of its children, plays no role
C16_AnnotationsFromPartTotalRow ==
    \A i \in 1..Len(parts) :
        LET hits == {r \in 1..Len(budgetData) :
                        /\ budgetData[r].row_type = "part_total"
                        /\ budgetData[r].Part = parts[i].part}
        IN  IF hits = {}
            THEN parts[i].approved2025 = 0 /\ parts[i].varianceVs2025 = Num(0)
            ELSE LET row      == budgetData[CHOOSE r \in hits : \A q \in hits : q <= r]
                     revised  == IF row.revisedType = "number" THEN row.revised2026 ELSE 0
                     approved == row.approved2025
                 IN  /\ parts[i].approved2025 = approved
                     /\ parts[i].varianceVs2025 =
                           IF approved > 0
                           THEN Norm((revised - approved) * 100, approved)
                           ELSE Num(0)

\* a Part whose part_total row carries approved > 0 and a revised estimate
\* that differs from the Part's totalBudget
C16_Witness ==
    \E i \in 1..Len(parts) : \E r \in 1..Len(budgetData) :
        /\ budgetData[r].row_type = "part_total"
        /\ budgetData[r].Part = parts[i].part
        /\ budgetData[r].approved2025 > 0
        /\ budgetData[r].revisedType = "number"
        /\ budgetData[r].revised2026 # parts[i].totalBudget
        /\ parts[i].varianceVs2025 # Num(0)

\* the rows of data without the row at index r
WithoutRow(data, r) == SubSeq(data, 1, r - 1) \o SubSeq(data, r + 1, Len(data))

\* the Parts, Sections and Entities of a tree with their totals
Totals(tree) ==
    [i \in 1..Len(tree) |->
        [part |-> tree[i].part, totalBudget |-> tree[i].totalBudget,
         sections |-> [k \in 1..Len(tree[i].sections) |->
                          [section |-> tree[i].sections[k].section,
                           totalBudget |-> tree[i].sections[k].totalBudget,
                           entities |-> [j \in 1..Len(tree[i].sections[k].entities) |->
                               [id |-> tree[i].sections[k].entities[j].id,
                                budget |-> tree[i].sections[k].entities[j].budget]]]]]]

\* C17: a row whose revised estimate is null or absent counts as 0: the
\* Parts, Sections and Entities of the tree and their totals are those of
\* the input without that row
C17_MissingRevisedCountsAsZero ==
    (~loading /\ ~crashed) =>
        \A r \in 1..Len(budgetData) :
            budgetData[r].revisedType # "number"
                => Totals(parts) = Totals(buildTree(WithoutRow(budgetData, r)))

----------------------------------------------------------------------------
(* EntityModal: the lazy fetch of details.json *)

\* the predicate of data.find with the first comparison only
MatchesByNameOnly(d, entity) == d.entity = entity.name

\* the predicate of data.find:
\*   d => d.entity === entity.name ||
\*        d.entity === entity.budgetItem.chapter_title ||
\*        d.entity === entity.budgetItem["Entity name"]
\* chapter_title and Entity name are string | null (<<>> for null, <<s>> for
\* a string), d.entity and entity.name are strings
Matches(d, entity) ==
    \/ d.entity = entity.name
    \/ <<d.entity>> = entity.chapter_title
    \/ <<d.entity>> = entity.EntityName

\* data.find(...): <<>> for undefined, else <<the first record that matches>>
Find(data, entity) ==
    LET hits == {k \in 1..Len(data) : Matches(data[k], entity)}
    IN  IF hits = {} THEN <<>>
        ELSE <<data[CHOOSE k \in hits : \A j \in hits : k <= j]>>

\* match?.narratives || []
NarrativesOf(match) == IF match = <<>> THEN <<>> ELSE match[1].narratives

\* match?.resource_table || null
ResourceTableOf(match) == IF match = <<>> THEN <<>> ELSE match[1].resource_table

\* how a fetch of details.json can settle: fetch rejects, res.ok is false,
\* res.json() rejects, the JSON value is no array, or it is the array
Outcomes == {"rejected", "not ok", "no JSON", "no array", "array"}

\* error.message of the Error that reaches the catch callback
MessageOf(outcome) ==
    CASE outcome = "rejected" -> "Failed to fetch"
      [] outcome = "not ok"   -> "Failed to load details: 404 Not Found"
      [] outcome = "no JSON"  -> "Unexpected token in JSON"
      [] outcome = "no array" -> "Invalid data format received"

\* setLoadingNarratives(true); fetch(...), the error is left as it is
IssueFetchKeepingError(entity) ==
    /\ loadingNarratives' = TRUE
    /\ detailsError' = detailsError
    /\ inflight' = Append(inflight, entity)

\* the effect of [entity]: setLoadingNarratives(true); setDetailsError(null);
\* fetch(...).  A fetch in flight is the entity its callbacks closed over
IssueFetch(entity) ==
    /\ loadingNarratives' = TRUE
    /\ detailsError' = <<>>
    /\ inflight' = Append(inflight, entity)

\* the then / catch / finally callbacks of the fetch at position k
Settle(k, outcome) ==
    /\ inflight' = SubSeq(inflight, 1, k - 1) \o SubSeq(inflight, k + 1, Len(inflight))
    /\ IF outcome = "array"
       THEN LET match == Find(details, inflight[k])
            IN  /\ narratives' = NarrativesOf(match)
                /\ resourceTable' = ResourceTableOf(match)
                /\ detailsError' = <<>>
       ELSE /\ narratives' = <<>>
            /\ resourceTable' = <<>>
            /\ detailsError' = <<MessageOf(outcome)>>
    /\ loadingNarratives' = FALSE

----------------------------------------------------------------------------
(* Specification of the modal: the page is loaded, entities are selected,   *)
(* fetches of details.json settle in any order, Retry and close             *)

\* longest details.json
MaxDetails == 2
\* most fetches in flight at a time
MaxInflight == 2

\* what EntityModal reads of the selected TreemapEntity: name,
\* budgetItem.chapter_title and budgetItem["Entity name"]
ModalEntities ==
    {[name |-> "A", chapter_title |-> <<>>,    EntityName |-> <<"A">>],
     [name |-> "B", chapter_title |-> <<"A">>, EntityName |-> <<"B">>],
     [name |-> "S", chapter_title |-> <<"A">>, EntityName |-> <<>>],
     [name |-> "S", chapter_title |-> <<>>,    EntityName |-> <<>>]}

\* the DetailItem records: the narratives and the resource table of the
\* record at position k are tagged with k
DetailArrays ==
    UNION {{[k \in 1..n |-> [entity |-> f[k], narratives |-> <<k>>,
                             resource_table |-> <<k>>]] : f \in [1..n -> {"A", "B", "S"}]} :
              n \in 0..MaxDetails}

\* the rows of the loaded page
ModalPageRows ==
    <<[row_type |-> "part_total", Part |-> "Part I", Section |-> "", EntityName |-> "",
       approved2025 |-> 0, proposed2026 |-> 0, revisedType |-> "number", revised2026 |-> MaxRevised],
      [row_type |-> "entity_total", Part |-> "Part I", Section |-> "2", EntityName |-> "A",
       approved2025 |-> 0, proposed2026 |-> 0, revisedType |-> "number", revised2026 |-> MaxRevised]>>

ModalInit ==
    /\ details \in DetailArrays
    /\ inflight = <<>>
    /\ narratives = <<>>
    /\ resourceTable = <<>>
    /\ loadingNarratives = FALSE
    /\ detailsError = <<>>
    /\ selectedEntity = <<>>
    /\ response = ModalPageRows
    /\ responseIsArray = TRUE
    /\ budgetData = response
    /\ loading = FALSE
    /\ crashed = FALSE
    /\ parts = buildTree(response)
    /\ treemap = <<>>
    /\ expanded = {}
    /\ rows = buildRows(response, {})
    /\ lastClick = <<>>
    /\ sqItems = <<>>
    /\ sqBox = [x |-> 0, y |-> 0, width |-> 100, height |-> 100]
    /\ sqCall = "none"
    /\ sqRects = <<>>
    /\ TicksIdle
    /\ HoverIdle

\* onEntityClick(entity): setSelectedEntity(entity); EntityModal is mounted
\* (with the initial values of its state) or re-rendered with the new
\* entity, and its effect on [entity] runs
SelectEntity ==
    /\ Len(inflight) < MaxInflight
    /\ \E entity \in ModalEntities :
          /\ selectedEntity' = <<entity>>
          /\ IssueFetch(entity)
    /\ UNCHANGED <<details, narratives, resourceTable>>
    /\ UNCHANGED <<expanded, rows, lastClick>>
    /\ UNCHANGED sqVars
    /\ UNCHANGED homeVars
    /\ UNCHANGED pageVars
    /\ UNCHANGED tickVars
    /\ UNCHANGED hoverVars

\* onClose: setSelectedEntity(null) unmounts EntityModal; its state is
\* gone, and the callbacks of the fetches in flight set the state of an
\* unmounted component, which does nothing
CloseModal ==
    /\ selectedEntity # <<>>
    /\ selectedEntity' = <<>>
    /\ inflight' = <<>>
    /\ narratives' = <<>>
    /\ resourceTable' = <<>>
    /\ loadingNarratives' = FALSE
    /\ detailsError' = <<>>
    /\ UNCHANGED details
    /\ UNCHANGED <<expanded, rows, lastClick>>
    /\ UNCHANGED sqVars
    /\ UNCHANGED homeVars
    /\ UNCHANGED pageVars
    /\ UNCHANGED tickVars
    /\ UNCHANGED hoverVars

\* a fetch in flight settles
FetchSettled ==
    /\ \E k \in 1..Len(inflight) : \E outcome \in Outcomes : Settle(k, outcome)
    /\ UNCHANGED details
    /\ UNCHANGED lollipopVars
    /\ UNCHANGED sqVars
    /\ UNCHANGED homeVars
    /\ UNCHANGED pageVars
    /\ UNCHANGED tickVars
    /\ UNCHANGED hoverVars

\* handleRetry; the button is rendered when !loadingNarratives && detailsError
Retry ==
    /\ ~loadingNarratives
    /\ detailsError # <<>>
    /\ Len(inflight) < MaxInflight
    /\ IssueFetch(selectedEntity[1])
    /\ UNCHANGED <<details, narratives, resourceTable>>
    /\ UNCHANGED lollipopVars
    /\ UNCHANGED sqVars
    /\ UNCHANGED homeVars
    /\ UNCHANGED pageVars
    /\ UNCHANGED tickVars
    /\ UNCHANGED hoverVars

ModalNext == SelectEntity \/ CloseModal \/ FetchSettled \/ Retry

SpecModal == ModalInit /\ [][ModalNext]_vars

----------------------------------------------------------------------------
(* Properties of the fetches *)

\* C18: a failed details fetch leaves the modal in the error state:
\* detailsError non-null, loading false, narratives empty, resource table
\* null; the step that sets the error changes neither the budget rows, the
\* tree, the expand set, the lollipop rows nor the selected entity; Retry is
\* possible in the error state and re-issues the fetch for the selected
\* entity with the error cleared and loading true
C18_FailureIsRetryable ==
    /\ [](detailsError # <<>> =>
             /\ ~loadingNarratives
             /\ narratives = <<>>
             /\ resourceTable = <<>>
             /\ selectedEntity # <<>>
             /\ Len(inflight) < MaxInflight => ENABLED Retry)
    /\ [][detailsError' # <<>> =>
             UNCHANGED <<budgetData, parts, expanded, rows, selectedEntity>>]_vars
    /\ [][Retry =>
             /\ detailsError' = <<>>
             /\ loadingNarratives'
             /\ inflight' = Append(inflight, selectedEntity[1])
             /\ UNCHANGED <<budgetData, parts, expanded, rows, selectedEntity>>]_vars

\* the fetch answered with a status that is not OK:
\* the modal is in the error state, no fetch in flight
C18_Witness ==
    /\ detailsError = <<"Failed to load details: 404 Not Found">>
    /\ selectedEntity # <<>>
    /\ inflight = <<>>

\* C19: a JSON payload that is no array is a retryable failure like a
\* failed fetch: once budget.json has answered with such a value the page
\* has not thrown and no tree and no layout was computed
C19_NonArrayIsRetryableFailure ==
    (~loading /\ ~responseIsArray) =>
        /\ ~crashed
        /\ parts = <<>>
        /\ treemap = <<>>

\* the candidate names of an entity
CandidateNames(entity) ==
    {entity.name} \cup Range(entity.chapter_title) \cup Range(entity.EntityName)

\* C20: when a fetch of details.json answers with the array, the modal shows
\* the first record, in array order, whose entity is one of the three
\* candidate names of the node the fetch was issued for; without such a
\* record the narratives are empty and the resource table is null; no error
\* is raised in either case
C20_FirstMatchWins ==
    [][(Len(inflight') = Len(inflight) - 1 /\ selectedEntity' = selectedEntity
          /\ detailsError' = <<>>) =>
        \E k \in 1..Len(inflight) :
            LET hits == {i \in 1..Len(details) :
                            details[i].entity \in CandidateNames(inflight[k])}
            IN  /\ inflight' = [j \in 1..(Len(inflight) - 1) |->
                                   IF j < k THEN inflight[j] ELSE inflight[j + 1]]
                /\ IF hits = {}
                   THEN narratives' = <<>> /\ resourceTable' = <<>>
                   ELSE \E i \in hits :
                           /\ \A h \in hits : i <= h
                           /\ narratives' = details[i].narratives
                           /\ resourceTable' = details[i].resource_table]_vars

\* the node B, whose chapter title is A, shows the first record (entity A)
\* although the second record carries the node's own name
C20_Witness ==
    /\ selectedEntity # <<>>
    /\ selectedEntity[1].name = "B"
    /\ Len(details) = 2
    /\ details[1].entity = "A"
    /\ details[2].entity = "B"
    /\ narratives = <<1>>
    /\ inflight = <<>>
    /\ ~loadingNarratives

----------------------------------------------------------------------------
(* BudgetTreemap (responsive): hover, tooltip and click on entity rectangles *)

\* the guard of the hover handlers without the isMobile test
HoverEnabledAlways(mobile) == TRUE

\* !isMobile && ... / if (!isMobile) { ... }
HoverEnabled(mobile) == ~mobile

\* onMouseEnter={() => !isMobile && setHoveredEntity(rect.data.id)}
OnMouseEnter(entity) ==
    /\ treemapEvent' = <<[type |-> "mouseenter", entity |-> entity]>>
    /\ hoveredEntity' = IF HoverEnabled(isMobile) THEN <<entity.id>> ELSE hoveredEntity
    /\ UNCHANGED <<isMobile, tooltip, selectedEntity>>

\* onMouseMove={(e) => !isMobile && handleMouseMove(e, rect.data)}
handleMouseMove(pos, entity) ==
    /\ treemapEvent' = <<[type |-> "mousemove", entity |-> entity]>>
    /\ tooltip' = IF HoverEnabled(isMobile)
                  THEN <<[x |-> pos[1], y |-> pos[2], entity |-> entity]>>
                  ELSE tooltip
    /\ UNCHANGED <<isMobile, hoveredEntity, selectedEntity>>

\* onMouseLeave={handleMouseLeave}
handleMouseLeave(entity) ==
    /\ treemapEvent' = <<[type |-> "mouseleave", entity |-> entity]>>
    /\ hoveredEntity' = IF HoverEnabled(isMobile) THEN <<>> ELSE hoveredEntity
    /\ tooltip' = IF HoverEnabled(isMobile) THEN <<>> ELSE tooltip
    /\ UNCHANGED <<isMobile, selectedEntity>>

\* the centre of the window: window.innerWidth / 2, window.innerHeight / 2
WindowCentre == <<2, 2>>

\* onClick={() => handleClick(rect.data)}
handleClick(entity) ==
    /\ treemapEvent' = <<[type |-> "click", entity |-> entity]>>
    /\ IF isMobile
       THEN /\ IF tooltip # <<>> /\ tooltip[1].entity.id = entity.id
               THEN tooltip' = <<>> /\ hoveredEntity' = <<>>
               ELSE /\ tooltip' = <<[x |-> WindowCentre[1], y |-> WindowCentre[2],
                                     entity |-> entity]>>
                    /\ hoveredEntity' = <<entity.id>>
            /\ UNCHANGED selectedEntity
       ELSE /\ selectedEntity' = <<entity>>
            /\ UNCHANGED <<tooltip, hoveredEntity>>
    /\ UNCHANGED isMobile

\* the Close button of the mobile tooltip (rendered when tooltip && isMobile)
CloseTooltip ==
    /\ tooltip # <<>>
    /\ isMobile
    /\ treemapEvent' = <<[type |-> "close", entity |-> tooltip[1].entity]>>
    /\ tooltip' = <<>>
    /\ hoveredEntity' = <<>>
    /\ UNCHANGED <<isMobile, selectedEntity>>

\* the View Details button of the mobile tooltip: onEntityClick(tooltip.entity)
ViewDetails ==
    /\ tooltip # <<>>
    /\ isMobile
    /\ treemapEvent' = <<[type |-> "details", entity |-> tooltip[1].entity]>>
    /\ selectedEntity' = <<tooltip[1].entity>>
    /\ UNCHANGED <<isMobile, tooltip, hoveredEntity>>

\* updateLayout on a resize that crosses the 640px width: setIsMobile(mobile)
Resize ==
    /\ isMobile' = ~isMobile
    /\ treemapEvent' = <<>>
    /\ UNCHANGED <<tooltip, hoveredEntity, selectedEntity>>

----------------------------------------------------------------------------
(* Specification of the treemap's events on a loaded page *)

\* the rows of the loaded page: one Section with two entities
TreemapPageRows ==
    <<[row_type |-> "entity_total", Part |-> "Part I", Section |-> "2", EntityName |-> "A",
       approved2025 |-> 0, proposed2026 |-> 0, revisedType |-> "number", revised2026 |-> MaxRevised],
      [row_type |-> "entity_total", Part |-> "Part I", Section |-> "2", EntityName |-> "B",
       approved2025 |-> 0, proposed2026 |-> 0, revisedType |-> "number", revised2026 |-> MaxRevised]>>

\* e.clientX, e.clientY of a mouse event
MousePositions == {<<1, 1>>, <<3, 1>>}

TooltipInit ==
    /\ isMobile \in BOOLEAN
    /\ hoveredEntity = <<>>
    /\ tooltip = <<>>
    /\ treemapEvent = <<>>
    /\ selectedEntity = <<>>
    /\ response = TreemapPageRows
    /\ responseIsArray = TRUE
    /\ budgetData = response
    /\ loading = FALSE
    /\ crashed = FALSE
    /\ parts = buildTree(response)
    /\ treemap = <<>>
    /\ expanded = {}
    /\ rows = <<>>
    /\ lastClick = <<>>
    /\ sqItems = <<>>
    /\ sqBox = [x |-> 0, y |-> 0, width |-> 100, height |-> 100]
    /\ sqCall = "none"
    /\ sqRects = <<>>
    /\ TicksIdle
    /\ ModalIdle

\* the state no treemap event touches
TooltipFrame ==
    /\ UNCHANGED <<expanded, rows, lastClick>>
    /\ UNCHANGED sqVars
    /\ UNCHANGED homeVars
    /\ UNCHANGED pageVars
    /\ UNCHANGED tickVars
    /\ UNCHANGED modalVars

MouseEnter == (\E entity \in Leaves : OnMouseEnter(entity)) /\ TooltipFrame

MouseMove ==
    (\E entity \in Leaves : \E pos \in MousePositions : handleMouseMove(pos, entity))
      /\ TooltipFrame

MouseLeave == (\E entity \in Leaves : handleMouseLeave(entity)) /\ TooltipFrame

Click == (\E entity \in Leaves : handleClick(entity)) /\ TooltipFrame

TooltipClose == CloseTooltip /\ TooltipFrame

TooltipDetails == ViewDetails /\ TooltipFrame

WindowResize == Resize /\ TooltipFrame

TooltipNext ==
    MouseEnter \/ MouseMove \/ MouseLeave \/ Click \/ TooltipClose \/ TooltipDetails
      \/ WindowResize

SpecTooltip == TooltipInit /\ [][TooltipNext]_vars

\* the event handled in this step is of the given type
Handled(type) == treemapEvent' # <<>> /\ treemapEvent'[1].type = type

\* C21: on a touch screen (isMobile) mouse enter, move and leave change
\* neither the tooltip nor the hovered entity; a click on the entity whose
\* tooltip is showing clears both, a click on another entity makes it the
\* one tooltip and the hovered entity, and the click raises no onEntityClick.
\* With a pointer (not isMobile) enter sets the hovered entity, move sets the
\* tooltip, leave clears both and a click raises onEntityClick
C21_HoverOnlyWithPointer ==
    [][/\ (isMobile /\ (Handled("mouseenter") \/ Handled("mousemove")
                          \/ Handled("mouseleave")))
            => UNCHANGED <<tooltip, hoveredEntity, selectedEntity>>
       /\ (isMobile /\ Handled("click"))
            => /\ UNCHANGED selectedEntity
               /\ IF tooltip # <<>> /\ tooltip[1].entity = treemapEvent'[1].entity
                  THEN tooltip' = <<>> /\ hoveredEntity' = <<>>
                  ELSE /\ tooltip' # <<>>
                       /\ tooltip'[1].entity = treemapEvent'[1].entity
                       /\ hoveredEntity' = <<treemapEvent'[1].entity.id>>
       /\ (~isMobile /\ Handled("mouseenter"))
            => hoveredEntity' = <<treemapEvent'[1].entity.id>>
       /\ (~isMobile /\ Handled("mousemove"))
            => tooltip' # <<>> /\ tooltip'[1].entity = treemapEvent'[1].entity
       /\ (~isMobile /\ Handled("mouseleave"))
            => tooltip' = <<>> /\ hoveredEntity' = <<>>
       /\ (~isMobile /\ Handled("click"))
            => selectedEntity' = <<treemapEvent'[1].entity>>]_vars

\* on a touch screen the tooltip of one entity is showing and the mouse
\* entered another entity
C21_Witness ==
    /\ isMobile
    /\ tooltip # <<>>
    /\ treemapEvent # <<>>
    /\ treemapEvent[1].type = "mouseenter"
    /\ treemapEvent[1].entity # tooltip[1].entity
    /\ hoveredEntity = <<tooltip[1].entity.id>>

----------------------------------------------------------------------------
(* Properties of the binary split *)

\* the normalized items squarify hands to slice for the drawn arguments
NormalizedItems ==
    Normalize(ItemsOf(sqItems), SumValue(ItemsOf(sqItems)), Num(sqBox.width),
              Num(sqBox.height))

\* the contiguous sub-lists of at least two items: every list a recursive
\* call of the binary split can receive is one of them
SubLists(items) ==
    UNION {{SubSeq(items, a, b) : b \in (a + 1)..Len(items)} : a \in 1..Len(items)}

\* the lengths of the prefixes whose cumulative weight is at least half of
\* the total weight
ReachingHalf(items) ==
    {k \in 1..Len(items) :
        Ge(Mul(Num(2), SumNormalized(SubSeq(items, 1, k))), SumNormalized(items))}

\* C22: in the binary split of n >= 2 items the split index is the length
\* of the shortest prefix whose cumulative weight is at least half of the
\* total, clamped to 1..n-1; the left and the right group are non-empty and
\* their concatenation is the item list
C22_SplitAtHalf ==
    (sqCall \in {"desktop", "aspect"} /\ SumInts(sqItems) > 0) =>
      \A items \in SubLists(NormalizedItems) :
            LET n          == Len(items)
                splitIndex == SplitIndex(items, SumNormalized(items))
                leftItems  == SubSeq(items, 1, splitIndex)
                rightItems == SubSeq(items, splitIndex + 1, n)
            IN  /\ ReachingHalf(items) # {}
                /\ \E k \in ReachingHalf(items) :
                      /\ \A j \in ReachingHalf(items) : k <= j
                      /\ splitIndex = (IF k > n - 1 THEN n - 1 ELSE k)
                /\ splitIndex \in 1..(n - 1)
                /\ leftItems # <<>>
                /\ rightItems # <<>>
                /\ leftItems \o rightItems = items

\* a binary split was made of a list in which only the whole list reaches
\* half of the total (the clamp acts) and of one split after two items
C22_Witness ==
    /\ sqCall = "desktop"
    /\ Len(sqItems) = 4
    /\ Len(sqRects) = 4
    /\ \E items \in SubLists(NormalizedItems) :
          ReachingHalf(items) = {Len(items)}
    /\ SplitIndex(NormalizedItems, SumNormalized(NormalizedItems)) = 2

----------------------------------------------------------------------------
(* Properties of the rectangles of a treemap render *)

\* width * height of a rectangle
AreaOf(r) == Mul(r.width, r.height)

\* the area squarify owes an item: value / total * width * height of the
\* 100 x 100 box the treemap passes
ShareOf(items, j) ==
    Mul(Mul(Div(items[j].value, SumValue(items)), Num(100)), Num(100))

\* the rectangles are those of the items, each with its proportional area
Proportional(items, rects) ==
    /\ Len(rects) = Len(items)
    /\ \A j \in 1..Len(items) :
          /\ rects[j].data = items[j].data
          /\ AreaOf(rects[j]) = ShareOf(items, j)

\* C23: every rectangle of a treemap render has the area
\* value / total * width * height of its item; the entity items handed to
\* squarify are in non-increasing order of budget, so the first (largest)
\* item has a rectangle no smaller than any other
C23_AreaProportionalSortedEntities ==
    /\ \A i \in 1..Len(treemap) :
          Proportional(treemap[i].sectionItems, treemap[i].sectionRects)
    /\ \A call \in EntityCalls :
          /\ Proportional(call.entityItems, call.entityRects)
          /\ \A j, k \in 1..Len(call.entityItems) :
                j < k =>
                  /\ Ge(call.entityItems[j].value, call.entityItems[k].value)
                  /\ Ge(AreaOf(call.entityRects[j]), AreaOf(call.entityRects[k]))

\* a Section whose three entities arrived in ascending order of budget was
\* laid out, the largest first
C23_Witness ==
    /\ Len(budgetData) = 3
    /\ budgetData[1].revised2026 < budgetData[3].revised2026
    /\ \E call \in EntityCalls :
          /\ Len(call.entityRects) = 3
          /\ call.entityItems[1].data.budget = budgetData[3].revised2026
          /\ Gt(AreaOf(call.entityRects[1]), AreaOf(call.entityRects[3]))

----------------------------------------------------------------------------
(* Properties of the partitioner on values >= 0 *)

\* C24: for values >= 0 with a positive total, in every mode, no rectangle
\* squarify returns has a width or height that is non-finite or negative
C24_FiniteNonNegativeSizes ==
    (sqCall # "none" /\ SumInts(sqItems) > 0) =>
      \A j \in 1..Len(sqRects) :
          /\ IsFinite(sqRects[j].width)
          /\ IsFinite(sqRects[j].height)
          /\ Ge(sqRects[j].width, Num(0))
          /\ Ge(sqRects[j].height, Num(0))

\* the interiors of two rectangles meet
Overlap(r, q) ==
    /\ Lt(r.x, Add(q.x, q.width))
    /\ Lt(q.x, Add(r.x, r.width))
    /\ Lt(r.y, Add(q.y, q.height))
    /\ Lt(q.y, Add(r.y, r.height))

\* C25: for positive values squarify returns one rectangle per item, in
\* input order; the rectangles tile the box: they lie in the box, no two
\* overlap in their interiors and their areas add up to the area of the box
C25_OneRectPerItemTilingTheBox ==
    (sqCall # "none" /\ Len(sqItems) > 0 /\ AllPositive(sqItems)) =>
      /\ Len(sqRects) = Len(sqItems)
      /\ \A j \in 1..Len(sqRects) : sqRects[j].data = j /\ InBox(sqRects[j])
      /\ \A j, k \in 1..Len(sqRects) : j < k => ~Overlap(sqRects[j], sqRects[k])
      /\ SumAreas(sqRects) = BoxArea

\* four positive items were packed in rows of a box away from the origin:
\* two rectangles side by side above two others
C25_Witness ==
    /\ sqCall = "mobile"
    /\ Len(sqItems) = 4
    /\ AllPositive(sqItems)
    /\ sqBox.x = 1
    /\ Len(sqRects) = 4
    /\ sqRects[1].y = sqRects[2].y
    /\ Lt(sqRects[1].x, sqRects[2].x)
    /\ Lt(sqRects[2].y, sqRects[3].y)

----------------------------------------------------------------------------
(* Termination of slice *)

\* C26: slice terminates: in the binary split both recursive calls receive
\* a non-empty list shorter than the list split; row packing of three or
\* more items makes more than one row, so with forceMobileLayout the result
\* is the layout of the rows, without recursion and without falling back to
\* the binary split
C26_SliceTerminates ==
    (sqCall # "none" /\ SumInts(sqItems) > 0) =>
      /\ \A items \in SubLists(NormalizedItems) :
            LET n          == Len(items)
                splitIndex == SplitIndex(items, SumNormalized(items))
                leftItems  == SubSeq(items, 1, splitIndex)
                rightItems == SubSeq(items, splitIndex + 1, n)
            IN  /\ Len(leftItems) \in 1..(n - 1)
                /\ Len(rightItems) \in 1..(n - 1)
                /\ n >= 3 => Len(MakeRows(items, SumNormalized(items))) > 1
      /\ (sqCall = "mobile" /\ Len(sqItems) >= 3) =>
            LET total == SumNormalized(NormalizedItems)
            IN  sqRects = LayoutRows(MakeRows(NormalizedItems, total), Num(sqBox.x),
                                     Num(sqBox.y), Num(sqBox.width),
                                     Num(sqBox.height), total)

\* four items uniform enough for a row size of three were packed: the rows
\* end early on their sum, two rows of two rectangles result
C26_Witness ==
    /\ sqCall = "mobile"
    /\ Len(sqItems) = 4
    /\ BestRowSize(NormalizedItems) = 3
    /\ Len(MakeRows(NormalizedItems, SumNormalized(NormalizedItems))) = 2
    /\ Len(sqRects) = 4
    /\ sqRects[1].y = sqRects[2].y
    /\ sqRects[3].y = sqRects[4].y
    /\ Lt(sqRects[2].y, sqRects[3].y)

----------------------------------------------------------------------------
(* Properties of the lollipop scale *)

\* 0 <= a <= 100
InPercentRange(a) == Ge(a, Num(0)) /\ Le(a, Num(100))

\* C27: when the lollipop has a row, the last tick is > 0 and >= every
\* row's approved, proposed and revised value, and scale maps every plotted
\* value and every tick into 0..100
C27_ScaleDefinedWithinRange ==
    rows # <<>> =>
      /\ Gt(scaleMax(ticks), Num(0))
      /\ Ge(scaleMax(ticks), maxValue)
      /\ \A k \in 1..Len(rows) :
            /\ InPercentRange(scale(Num(rows[k].approved2025), ticks))
            /\ InPercentRange(scale(Num(rows[k].proposed2026), ticks))
            /\ InPercentRange(scale(Num(rows[k].revised2026), ticks))
      /\ \A t \in 1..Len(ticks) : InPercentRange(scale(ticks[t], ticks))

----------------------------------------------------------------------------
(* The lollipop rows against the tree *)

\* the Parts of the tree with the given key
TreeParts(partKey) == {i \in 1..Len(parts) : parts[i].part = partKey}

\* every row that has children is expanded
AllExpanded == \A k \in 1..Len(rows) : rows[k].hasChildren => rows[k].id \in expanded

\* C28: every level-0, level-1 and level-2 row of the lollipop corresponds
\* to a Part, Section or Entity of the tree built from the same rows, so no
\* row has revised <= 0; a Part row's revised value is the Part's
\* totalBudget; with everything expanded every node of the tree has a row
C28_RowsAreViewOfTree ==
    /\ \A k \in 1..Len(rows) :
          /\ rows[k].revised2026 > 0
          /\ \E i \in TreeParts(rows[k].partKey) :
                /\ rows[k].level = 0 => rows[k].revised2026 = parts[i].totalBudget
                /\ rows[k].level >= 1 =>
                      \E s \in 1..Len(parts[i].sections) :
                          /\ parts[i].sections[s].section = rows[k].sectionKey
                          /\ rows[k].level = 2 =>
                                \E j \in 1..Len(parts[i].sections[s].entities) :
                                    parts[i].sections[s].entities[j].id = rows[k].id
    /\ AllExpanded =>
          \A i \in 1..Len(parts) :
              /\ \E k \in RowsAtLevel(0) : rows[k].id = parts[i].part
              /\ \A s \in 1..Len(parts[i].sections) :
                    \E k \in RowsAtLevel(1) :
                        rows[k].id = SectionId(parts[i].part, parts[i].sections[s].section)

----------------------------------------------------------------------------
(* The expand set across collapse and re-expansion *)

\* the ids a row of the input can have at level 0 or 1
ContainerIds ==
    Range(PART_ORDER)
      \cup {SectionId(PART_ORDER[i], s) : i \in 1..Len(PART_ORDER), s \in InputSections}

\* the ids of the rows with children, taken from the fully expanded chart
IdsWithChildren ==
    LET all == buildRows(budgetData, ContainerIds)
    IN  {all[k].id : k \in {j \in 1..Len(all) : all[j].hasChildren}}

\* the step is a click that collapses the Part row it was made on
CollapsesPart ==
    /\ Len(lastClick') = 1
    /\ lastClick'[1].level = 0
    /\ lastClick'[1].hasChildren
    /\ lastClick'[1].id \in expanded

\* C29: after every row click the expand set holds only ids of rows with
\* children; collapsing a Part removes the Part's id alone (the ids of its
\* expanded Sections stay), leaves none of its Section and Entity rows
\* visible, and expanding it again gives exactly the rows shown before
C29_CollapseKeepsSections ==
    [][/\ expanded' \subseteq IdsWithChildren
       /\ CollapsesPart =>
             LET part == lastClick'[1].id
             IN  /\ expanded' = expanded \ {part}
                 /\ \A k \in 1..Len(rows') :
                       rows'[k].partKey = part => rows'[k].level = 0
                 /\ \E k \in 1..Len(rows') :
                       /\ rows'[k].id = part
                       /\ buildRows(budgetData,
                                    toggleExpand(expanded', part, rows'[k].hasChildren))
                            = rows]_vars

\* a Part was collapsed while one of its Sections is expanded: the id of
\* the Section is still in the expand set and its rows are hidden
C29_Witness ==
    /\ Len(lastClick) = 1
    /\ lastClick[1].level = 0
    /\ lastClick[1].id \notin expanded
    /\ \E s \in InputSections : SectionId(lastClick[1].id, s) \in expanded
    /\ \A k \in 1..Len(rows) : rows[k].level = 0

----------------------------------------------------------------------------
(* Isolation of the details fetch *)

\* C30: whenever the modal is open and not loading, what it shows comes
\* from the fetch issued for the selected entity: without an error, the
\* narratives and the resource table are those of the first record of
\* details.json that matches the selected entity
C30_ResultOfSelectedEntity ==
    (selectedEntity # <<>> /\ ~loadingNarratives /\ detailsError = <<>>) =>
      LET match == Find(details, selectedEntity[1])
      IN  /\ narratives = NarrativesOf(match)
          /\ resourceTable = ResourceTableOf(match)

====
